---- MODULE Spec2Model ----
(***************************************************************************)
(* A model of the Reversi engine of foxzool/reversi.                       *)
(*                                                                         *)
(* A u64 bitboard is modelled as the set of its set bit indices (0..63):   *)
(* `a | b` is union, `a & b` is intersection, `a & !b` is set difference,  *)
(* `1u64 << pos` is {pos}, count_ones is Cardinality and `m == 0` is       *)
(* m = {}.  A Board is a record [black, white] of two such sets.           *)
(***************************************************************************)
EXTENDS Integers, Sequences, FiniteSets

VARIABLES
    board,       \* the Board component: [black |-> bits, white |-> bits]
    calls,       \* number of make_move calls made so far
    lastPos,     \* `position` argument of the last make_move call
    lastPlayer,  \* `player` argument of the last make_move call
    lastRet,     \* value returned by the last make_move call
    prevBoard,   \* the board as it was before the last make_move call
    repeated,    \* the last call repeated the arguments of a call that returned false
    probe,       \* the last call of minimax or find_best_move: arguments and value
    search,      \* the activation of find_best_move_with_time_limit
    ai,          \* the AiPlayer and the activation of get_ai_move
    tasks,       \* a find_best_move call with its parallel map in flight
    game         \* the resources and events of the Playing state of main.rs

vars == <<board, calls, lastPos, lastPlayer, lastRet, prevBoard, repeated,
          probe, search, ai, tasks, game>>

----------------------------------------------------------------------------
(* Bounds of the model *)

\* make_move calls explored from Board::new()
MaxCalls == 3

\* number of cells of RegionCells that the drawn boards may occupy
RegionSize == 6

\* number of cells of RegionCells that the boards searched may occupy
SearchRegionSize == 4

\* largest `depth` passed to find_best_move
MaxDepth == 3

\* largest `max_depth` passed to find_best_move_with_time_limit
MaxIterDepth == 2

\* deepest iteration the clock lets a search of get_ai_move start
MaxSearchedDepth == 2

\* largest `depth` of a find_best_move call followed task by task
MaxParDepth == 2

\* number of moves made in the frames of one game
MaxGameMoves == 2

\* deepest iteration the clock lets a search start during a game
MaxGameDepth == 1

----------------------------------------------------------------------------
(* game/board.rs *)

Black == "Black"
White == "White"
PlayerColor == {Black, White}

\* Option::None of Option<PlayerColor>
None == "None"

opposite(player) == IF player = Black THEN White ELSE Black

\* the bit indices of a u64
Positions == 0..63

\* The Rust range lo..hi (hi excluded).  Written as a union so that TLC keeps
\* a set filtered from it symbolic and tests one position's membership
\* without enumerating the whole set.
Range(lo, hi) == UNION {lo..(hi - 1)}

\* BitsOfRows(rows): the set bits of the u64 whose byte i (least significant
\* byte first) is rows[i + 1]; byte i holds the cells of row i.
BitsOfRows(rows) ==
    {p \in Positions : (rows[(p \div 8) + 1] \div (2 ^ (p % 8))) % 2 = 1}

\* 0x0000001008000000, least significant byte first
BLACK_START == <<0, 0, 0, 8, 16, 0, 0, 0>>
\* 0x0000000810000000, least significant byte first
WHITE_START == <<0, 0, 0, 16, 8, 0, 0, 0>>

\* BoardNew with the two masks exchanged
BoardNewSwapped ==
    [black |-> BitsOfRows(WHITE_START), white |-> BitsOfRows(BLACK_START)]

\* BoardNew with each colour on one row (0x18000000 and 0x1800000000)
BoardNewAdjacent ==
    [black |-> BitsOfRows(<<0, 0, 0, 24, 0, 0, 0, 0>>),
     white |-> BitsOfRows(<<0, 0, 0, 0, 24, 0, 0, 0>>)]

BoardNew == [black |-> BitsOfRows(BLACK_START), white |-> BitsOfRows(WHITE_START)]

own_of(b, player) == IF player = Black THEN b.black ELSE b.white
opp_of(b, player) == IF player = Black THEN b.white ELSE b.black

get_piece(b, position) ==
    IF position \in b.black THEN Black
    ELSE IF position \in b.white THEN White
    ELSE None

is_empty(b, position) == position \notin (b.black \cup b.white)

count_pieces(b, color) ==
    IF color = Black THEN Cardinality(b.black) ELSE Cardinality(b.white)

get_empty_squares(b) == Positions \ (b.black \cup b.white)

position_to_coords(position) == <<position \div 8, position % 8>>

\* coords_to_position with the row and the column exchanged
coords_to_position_transposed(row, col) == (col * 8 + row) % 256

coords_to_position(row, col) == (row * 8 + col) % 256

----------------------------------------------------------------------------
(* game/rules.rs *)

DIRECTIONS ==
    << <<-1, -1>>, <<-1, 0>>, <<-1, 1>>, <<0, -1>>,
       <<0, 1>>, <<1, -1>>, <<1, 0>>, <<1, 1>> >>

\* OnBoard testing only that the bit index r * 8 + c is one of the 64 bits, so
\* that a scan runs over the end of a row into the neighbouring row
OnBoardWrap(r, c) == r * 8 + c >= 0 /\ r * 8 + c < 64

\* (0..8).contains(&r) && (0..8).contains(&c)
OnBoard(r, c) == r >= 0 /\ r < 8 /\ c >= 0 /\ c < 8

\* The while loop of get_moves_in_direction from cell (r, c) on: TRUE iff
\* the loop sets the bit of the scanned position.
RECURSIVE ScanMove(_, _, _, _, _, _, _)
ScanMove(own, opp, r, c, dx, dy, found_opponent) ==
    IF ~OnBoard(r, c) THEN FALSE
    ELSE LET check_pos == r * 8 + c IN
         IF check_pos \in opp
             THEN ScanMove(own, opp, r + dx, c + dy, dx, dy, TRUE)
         ELSE IF check_pos \in own /\ found_opponent THEN TRUE
         ELSE FALSE

get_moves_in_direction(own, opp, empty, dx, dy) ==
    {pos \in Range(0, 64) :
        /\ pos \in empty
        /\ ScanMove(own, opp, (pos \div 8) + dx, (pos % 8) + dy, dx, dy, FALSE)}

\* The loop `for &(dx, dy) in &DIRECTIONS { moves |= ... }` of get_valid_moves,
\* from the i-th direction on.
RECURSIVE MovesLoop(_, _, _, _, _)
MovesLoop(own, opp, empty, i, moves) ==
    IF i > Len(DIRECTIONS) THEN moves
    ELSE MovesLoop(own, opp, empty, i + 1,
                   moves \cup get_moves_in_direction(own, opp, empty,
                                 DIRECTIONS[i][1], DIRECTIONS[i][2]))

get_valid_moves(b, player) ==
    MovesLoop(own_of(b, player), opp_of(b, player), get_empty_squares(b), 1, {})

\* MovesFrom pushing the positions from 63 down to `position`
RECURSIVE MovesFromDescending(_, _)
MovesFromDescending(moves_mask, position) ==
    IF position >= 64 THEN <<>>
    ELSE MovesFromDescending(moves_mask, position + 1)
         \o (IF position \in moves_mask THEN <<position>> ELSE <<>>)

\* the loop `for position in 0..64` of get_valid_moves_list, from `position` on
RECURSIVE MovesFrom(_, _)
MovesFrom(moves_mask, position) ==
    IF position >= 64 THEN <<>>
    ELSE (IF position \in moves_mask THEN <<position>> ELSE <<>>)
         \o MovesFrom(moves_mask, position + 1)

get_valid_moves_list(b, player) == MovesFrom(get_valid_moves(b, player), 0)

\* is_valid_move without the test of the legality mask
is_valid_move_any_empty(b, position, player) ==
    IF position >= 64 \/ ~is_empty(b, position) THEN FALSE
    ELSE TRUE

is_valid_move(b, position, player) ==
    IF position >= 64 \/ ~is_empty(b, position) THEN FALSE
    ELSE position \in get_valid_moves(b, player)

\* ScanFlips that also flips a run of opponent discs ended by an empty cell
RECURSIVE ScanFlipsToEmpty(_, _, _, _, _, _, _)
ScanFlipsToEmpty(own, opp, r, c, dx, dy, candidate_flips) ==
    IF ~(r >= 0 /\ r < 8 /\ c >= 0 /\ c < 8) THEN {}
    ELSE LET check_pos == r * 8 + c IN
         IF check_pos \in opp
             THEN ScanFlipsToEmpty(own, opp, r + dx, c + dy, dx, dy,
                                   candidate_flips \cup {check_pos})
         ELSE candidate_flips

\* The while loop of get_flipped_discs from cell (r, c) on: the bits the
\* direction adds to `flipped`.
RECURSIVE ScanFlips(_, _, _, _, _, _, _)
ScanFlips(own, opp, r, c, dx, dy, candidate_flips) ==
    IF ~OnBoard(r, c) THEN {}
    ELSE LET check_pos == r * 8 + c IN
         IF check_pos \in opp
             THEN ScanFlips(own, opp, r + dx, c + dy, dx, dy,
                            candidate_flips \cup {check_pos})
         ELSE IF check_pos \in own THEN candidate_flips
         ELSE {}

get_flipped_discs(b, position, player) ==
    LET own == own_of(b, player)
        opp == opp_of(b, player)
        row == position \div 8
        col == position % 8
    IN  UNION {ScanFlips(own, opp, row + DIRECTIONS[i][1], col + DIRECTIONS[i][2],
                         DIRECTIONS[i][1], DIRECTIONS[i][2], {}) :
               i \in 1..Len(DIRECTIONS)}

\* make_move without the early return on an invalid move
make_move_unchecked(b, position, player) ==
    LET mask == IF position < 64 THEN {position} ELSE {}
        flipped == IF position < 64 THEN get_flipped_discs(b, position, player)
                   ELSE {}
    IN  IF player = Black
            THEN [ret |-> TRUE,
                  board |-> [black |-> b.black \cup (mask \cup flipped),
                             white |-> b.white \ flipped]]
            ELSE [ret |-> TRUE,
                  board |-> [white |-> b.white \cup (mask \cup flipped),
                             black |-> b.black \ flipped]]

\* make_move that does not clear the flipped bits from the opponent's mask
make_move_keep_opp(b, position, player) ==
    IF ~is_valid_move(b, position, player) THEN [ret |-> FALSE, board |-> b]
    ELSE LET mask == {position}
             flipped == get_flipped_discs(b, position, player)
         IN  IF player = Black
                 THEN [ret |-> TRUE,
                       board |-> [black |-> b.black \cup (mask \cup flipped),
                                  white |-> b.white]]
                 ELSE [ret |-> TRUE,
                       board |-> [white |-> b.white \cup (mask \cup flipped),
                                  black |-> b.black]]

\* make_move that flips but does not set the bit of `position`
make_move_no_place(b, position, player) ==
    IF ~is_valid_move(b, position, player) THEN [ret |-> FALSE, board |-> b]
    ELSE LET flipped == get_flipped_discs(b, position, player)
         IN  IF player = Black
                 THEN [ret |-> TRUE,
                       board |-> [black |-> b.black \cup flipped,
                                  white |-> b.white \ flipped]]
                 ELSE [ret |-> TRUE,
                       board |-> [white |-> b.white \cup flipped,
                                  black |-> b.black \ flipped]]

\* make_move: the returned bool and the board it leaves behind
make_move(b, position, player) ==
    IF ~is_valid_move(b, position, player) THEN [ret |-> FALSE, board |-> b]
    ELSE LET mask == {position}
             flipped == get_flipped_discs(b, position, player)
         IN  IF player = Black
                 THEN [ret |-> TRUE,
                       board |-> [black |-> b.black \cup (mask \cup flipped),
                                  white |-> b.white \ flipped]]
                 ELSE [ret |-> TRUE,
                       board |-> [white |-> b.white \cup (mask \cup flipped),
                                  black |-> b.black \ flipped]]

has_valid_moves(b, player) == get_valid_moves(b, player) # {}

\* is_game_over with || in place of &&
is_game_over_either(b) ==
    get_valid_moves(b, Black) = {} \/ get_valid_moves(b, White) = {}

is_game_over(b) ==
    get_valid_moves(b, Black) = {} /\ get_valid_moves(b, White) = {}

\* get_winner without the early return on a game that is not over
get_winner_unchecked(b) ==
    LET black_count == count_pieces(b, Black)
        white_count == count_pieces(b, White)
    IN  IF black_count > white_count THEN Black
        ELSE IF white_count > black_count THEN White
        ELSE None

get_winner(b) ==
    IF ~is_game_over(b) THEN None
    ELSE LET black_count == count_pieces(b, Black)
             white_count == count_pieces(b, White)
         IN  IF black_count > white_count THEN Black
             ELSE IF white_count > black_count THEN White
             ELSE None

----------------------------------------------------------------------------
(* f32 arithmetic of ai/evaluation.rs *)

\* An f32 is modelled exactly, as a sign and a magnitude int + frac / 2^26:
\* every value evaluate_board computes is a multiple of 2^-26 below 2^24.
FracUnit == 2 ^ 26

RECURSIVE Log2(_)
\* the position of the highest set bit of n >= 1
Log2(n) == IF n < 2 THEN 0 ELSE 1 + Log2(n \div 2)

\* Round the magnitude int + frac / 2^26 to the nearest f32, ties to the even
\* significand (IEEE 754 round-to-nearest-even; the significand has 24 bits).
RoundF32(neg, int, frac) ==
    LET high == IF int >= 1 THEN Log2(int) + 26
                ELSE IF frac >= 1 THEN Log2(frac) ELSE 0
        ulp == IF high > 23 THEN 2 ^ (high - 23) ELSE 1
        q == frac \div ulp
        r == frac % ulp
        lsb == (int * (FracUnit \div ulp) + q) % 2
        up == IF 2 * r > ulp \/ (ulp > 1 /\ 2 * r = ulp /\ lsb = 1) THEN 1 ELSE 0
        rounded == (q + up) * ulp
    IN  IF rounded >= FracUnit
        THEN [neg |-> neg, int |-> int + 1, frac |-> rounded - FracUnit]
        ELSE [neg |-> neg, int |-> int, frac |-> rounded]

\* `x as f32` of an i32 below 2^24 in magnitude (exact)
AsF32(x) == [neg |-> x < 0, int |-> IF x < 0 THEN -x ELSE x, frac |-> 0]

\* The f32 literal tenths / 10 of for_stage, as its numerator over 2^26
\* (0.2 is 13421773 / 2^26, 0.4 is 13421773 / 2^25, 0.6 is 5033165 / 2^23,
\* 0.8 is 13421773 / 2^24).
F32Lit(tenths) ==
    CASE tenths = 2 -> 13421773
      [] tenths = 4 -> 26843546
      [] tenths = 6 -> 40265320
      [] tenths = 8 -> 53687092
      [] tenths = 10 -> 67108864

\* score * weight in f32, for a whole-numbered score below 2^13 in magnitude.
\* The exact product is taken in two 13-bit halves of the weight's numerator
\* and then rounded once.
F32Mul(score, weight) ==
    LET half == 2 ^ 13
        a == score.int * (weight \div half)
        b == score.int * (weight % half)
        a2 == a + (b \div half)
    IN  RoundF32(score.neg, a2 \div half, (a2 % half) * half + (b % half))

\* x + y in f32: the exact sum, rounded once
F32Add(x, y) ==
    LET Floor(v) == IF ~v.neg \/ (v.int = 0 /\ v.frac = 0) THEN <<v.int, v.frac>>
                    ELSE IF v.frac = 0 THEN <<-v.int, 0>>
                    ELSE <<-v.int - 1, FracUnit - v.frac>>
        fx == Floor(x)
        fy == Floor(y)
        f == fx[2] + fy[2]
        carry == IF f >= FracUnit THEN 1 ELSE 0
        i == fx[1] + fy[1] + carry
        fr == f - carry * FracUnit
    IN  IF i >= 0 THEN RoundF32(FALSE, i, fr)
        ELSE IF fr = 0 THEN RoundF32(TRUE, -i, 0)
        ELSE RoundF32(TRUE, -i - 1, FracUnit - fr)

\* `v as i32`: truncation toward zero
AsI32(v) == IF v.neg THEN -v.int ELSE v.int

----------------------------------------------------------------------------
(* ai/evaluation.rs *)

POSITION_WEIGHTS ==
    <<100, -20, 10,  5,  5, 10, -20, 100,
      -20, -50, -2, -2, -2, -2, -50, -20,
       10,  -2, -1, -1, -1, -1,  -2,  10,
        5,  -2, -1, -1, -1, -1,  -2,   5,
        5,  -2, -1, -1, -1, -1,  -2,   5,
       10,  -2, -1, -1, -1, -1,  -2,  10,
      -20, -50, -2, -2, -2, -2, -50, -20,
      100, -20, 10,  5,  5, 10, -20, 100>>

\* EvaluationWeights::for_stage
for_stage(move_number) ==
    IF move_number <= 20
    THEN [corner |-> F32Lit(8), stability |-> F32Lit(6), mobility |-> F32Lit(10),
          positional |-> F32Lit(8), parity |-> F32Lit(2)]
    ELSE IF move_number <= 45
    THEN [corner |-> F32Lit(10), stability |-> F32Lit(8), mobility |-> F32Lit(6),
          positional |-> F32Lit(6), parity |-> F32Lit(4)]
    ELSE [corner |-> F32Lit(10), stability |-> F32Lit(10), mobility |-> F32Lit(2),
          positional |-> F32Lit(4), parity |-> F32Lit(8)]

\* evaluate_corners with the opponent's corners left out of the score
evaluate_corners_own_only(b, player) ==
    100 * Cardinality({0, 7, 56, 63} \cap own_of(b, player))

RECURSIVE CornersLoop(_, _, _, _)
\* the loop of evaluate_corners over corners[i..]
CornersLoop(b, player, i, score) ==
    LET corners == <<0, 7, 56, 63>> IN
    IF i > Len(corners) THEN score
    ELSE LET piece == get_piece(b, corners[i]) IN
         CornersLoop(b, player, i + 1,
                     IF piece = player THEN score + 100
                     ELSE IF piece # None THEN score - 100
                     ELSE score)

evaluate_corners(b, player) == CornersLoop(b, player, 1, 0)

is_stable_piece(b, position) ==
    LET row == position \div 8
        col == position % 8
    IN  row = 0 \/ row = 7 \/ col = 0 \/ col = 7

evaluate_stability(b, player) ==
    LET player_pieces == own_of(b, player)
        stable_count ==
            Cardinality({position \in player_pieces : is_stable_piece(b, position)})
    IN  stable_count * 50

evaluate_mobility(b, player) ==
    LET player_moves == Cardinality(get_valid_moves(b, player))
        opponent_moves == Cardinality(get_valid_moves(b, opposite(player)))
    IN  (player_moves - opponent_moves) * 30

RECURSIVE PositionalLoop(_, _, _, _)
\* what the loop of evaluate_positional adds to score over the positions
\* lo..hi-1, summed by halves
PositionalLoop(b, player, lo, hi) ==
    IF hi - lo = 1
    THEN LET piece == get_piece(b, lo) IN
         IF piece = player THEN POSITION_WEIGHTS[lo + 1]
         ELSE IF piece # None THEN -POSITION_WEIGHTS[lo + 1]
         ELSE 0
    ELSE LET mid == (lo + hi) \div 2 IN
         PositionalLoop(b, player, lo, mid) + PositionalLoop(b, player, mid, hi)

evaluate_positional(b, player) == PositionalLoop(b, player, 0, 64)

evaluate_parity(b, player) ==
    LET empty_squares == Cardinality(get_empty_squares(b)) IN
    IF empty_squares % 2 = 1 THEN 10 ELSE -10

\* the weighted f32 sum of evaluate_board, added left to right
WeightedSum(weights, corner_score, stability_score, mobility_score, positional_score, parity_score) ==
    F32Add(F32Add(F32Add(F32Add(F32Mul(corner_score, weights.corner),
                                F32Mul(stability_score, weights.stability)),
                         F32Mul(mobility_score, weights.mobility)),
                  F32Mul(positional_score, weights.positional)),
           F32Mul(parity_score, weights.parity))

evaluate_board(b, player) ==
    LET move_count == count_pieces(b, Black) + count_pieces(b, White)
        weights == for_stage(move_count)
    IN  AsI32(WeightedSum(weights,
                          AsF32(evaluate_corners(b, player)),
                          AsF32(evaluate_stability(b, player)),
                          AsF32(evaluate_mobility(b, player)),
                          AsF32(evaluate_positional(b, player)),
                          AsF32(evaluate_parity(b, player))))

----------------------------------------------------------------------------
(* ai/minimax.rs *)

\* i32::MIN and i32::MAX
I32_MIN == -2147483647 - 1
I32_MAX == 2147483647

\* Option<Move>: None is the empty sequence, Some(Move { position }) the
\* sequence of that one position
NoMove == <<>>
Some(position) == <<position>>

\* SearchResult::default()
SearchResultDefault ==
    [best_move |-> NoMove, evaluation |-> 0, depth_reached |-> 0,
     nodes_evaluated |-> 0, completed |-> FALSE]

\* TryCandidate moving on the board behind the reference
TryCandidateInPlace(b, position, current_player) ==
    [board |-> make_move(b, position, current_player).board,
     new_board |-> make_move(b, position, current_player).board]

\* `let mut new_board = *board; new_board.make_move(position, current_player)`:
\* the board behind the reference and the copy, after the two statements
TryCandidate(b, position, current_player) ==
    [board |-> b,
     new_board |-> make_move(b, position, current_player).board]

RECURSIVE minimax(_, _, _, _, _, _)
RECURSIVE MaxLoop(_, _, _, _, _, _, _, _)
RECURSIVE MinLoop(_, _, _, _, _, _, _, _)

\* the rest of one turn of the maximizing loop, once the move's eval is known
MaxStep(b, moves, i, depth, alpha, beta, max_eval, player, eval) ==
    LET new_max == IF eval > max_eval THEN eval ELSE max_eval
        new_alpha == IF eval > alpha THEN eval ELSE alpha
    IN  IF beta <= new_alpha THEN new_max
        ELSE MaxLoop(b, moves, i + 1, depth, new_alpha, beta, new_max, player)

\* the maximizing loop of minimax over moves[i..]; current_player is player
MaxLoop(b, moves, i, depth, alpha, beta, max_eval, player) ==
    IF i > Len(moves) THEN max_eval
    ELSE MaxStep(b, moves, i, depth, alpha, beta, max_eval, player,
                 minimax(TryCandidate(b, moves[i], player).new_board,
                         depth - 1, alpha, beta, FALSE, player))

\* MinStep breaking as soon as an eval lowers beta
MinStepBreaksEarly(b, moves, i, depth, alpha, beta, min_eval, player, eval) ==
    LET new_min == IF eval < min_eval THEN eval ELSE min_eval
        new_beta == IF eval < beta THEN eval ELSE beta
    IN  IF new_beta <= alpha \/ eval < beta THEN new_min
        ELSE MinLoop(b, moves, i + 1, depth, alpha, new_beta, new_min, player)

\* the rest of one turn of the minimizing loop, once the move's eval is known
MinStep(b, moves, i, depth, alpha, beta, min_eval, player, eval) ==
    LET new_min == IF eval < min_eval THEN eval ELSE min_eval
        new_beta == IF eval < beta THEN eval ELSE beta
    IN  IF new_beta <= alpha THEN new_min
        ELSE MinLoop(b, moves, i + 1, depth, alpha, new_beta, new_min, player)

\* the minimizing loop of minimax over moves[i..]; current_player is the
\* opposite of player
MinLoop(b, moves, i, depth, alpha, beta, min_eval, player) ==
    IF i > Len(moves) THEN min_eval
    ELSE MinStep(b, moves, i, depth, alpha, beta, min_eval, player,
                 minimax(TryCandidate(b, moves[i], opposite(player)).new_board,
                         depth - 1, alpha, beta, TRUE, player))

\* SearchMoves keeping the same side to move after a pass
SearchMovesPassKeepsSide(b, depth, alpha, beta, maximizing, player, moves) ==
    IF moves = <<>>
    THEN minimax(b, depth - 1, alpha, beta, maximizing, player)
    ELSE IF maximizing
    THEN MaxLoop(b, moves, 1, depth, alpha, beta, I32_MIN, player)
    ELSE MinLoop(b, moves, 1, depth, alpha, beta, I32_MAX, player)

\* minimax once the move list of current_player is known
SearchMoves(b, depth, alpha, beta, maximizing, player, moves) ==
    IF moves = <<>>
    THEN minimax(b, depth - 1, alpha, beta, ~maximizing, player)
    ELSE IF maximizing
    THEN MaxLoop(b, moves, 1, depth, alpha, beta, I32_MIN, player)
    ELSE MinLoop(b, moves, 1, depth, alpha, beta, I32_MAX, player)

\* minimax scoring a leaf for the side to move
minimax_for_mover(b, depth, alpha, beta, maximizing, player) ==
    LET current_player == IF maximizing THEN player ELSE opposite(player) IN
    IF depth = 0 \/ is_game_over(b) THEN evaluate_board(b, current_player)
    ELSE SearchMoves(b, depth, alpha, beta, maximizing, player,
                     get_valid_moves_list(b, current_player))

minimax(b, depth, alpha, beta, maximizing, player) ==
    IF depth = 0 \/ is_game_over(b) THEN evaluate_board(b, player)
    ELSE LET current_player == IF maximizing THEN player ELSE opposite(player) IN
         SearchMoves(b, depth, alpha, beta, maximizing, player,
                     get_valid_moves_list(b, current_player))

RECURSIVE MoveEvaluations(_, _, _, _, _)
\* the (move, evaluation) pairs of find_best_move for moves[i..], in the
\* order of moves (the parallel map collects in order)
MoveEvaluations(b, moves, i, depth, player) ==
    IF i > Len(moves) THEN <<>>
    ELSE << <<moves[i],
              minimax(TryCandidate(b, moves[i], player).new_board,
                      depth - 1, I32_MIN, I32_MAX, FALSE, player)>> >>
         \o MoveEvaluations(b, moves, i + 1, depth, player)

RECURSIVE max_by_key_least(_, _, _)
\* max_by_key keeping the least evaluation
max_by_key_least(move_evaluations, i, best) ==
    IF i > Len(move_evaluations) THEN best
    ELSE max_by_key_least(move_evaluations, i + 1,
                          IF best[2] < move_evaluations[i][2] THEN best
                          ELSE move_evaluations[i])

RECURSIVE max_by_key_first(_, _, _)
\* max_by_key keeping the first of equal maxima
max_by_key_first(move_evaluations, i, best) ==
    IF i > Len(move_evaluations) THEN best
    ELSE max_by_key_first(move_evaluations, i + 1,
                          IF best[2] >= move_evaluations[i][2] THEN best
                          ELSE move_evaluations[i])

RECURSIVE max_by_key(_, _, _)
\* Iterator::max_by_key over move_evaluations[i..] with `best` the maximum so
\* far: a later element replaces it unless the earlier one is strictly greater
max_by_key(move_evaluations, i, best) ==
    IF i > Len(move_evaluations) THEN best
    ELSE max_by_key(move_evaluations, i + 1,
                    IF best[2] > move_evaluations[i][2] THEN best
                    ELSE move_evaluations[i])

\* find_best_move once the move list and its evaluations are known
BestOf(depth, move_evaluations) ==
    LET best == max_by_key(move_evaluations, 2, move_evaluations[1]) IN
    [best_move |-> Some(best[1]), evaluation |-> best[2], depth_reached |-> depth,
     nodes_evaluated |-> 0, completed |-> TRUE]

\* find_best_move for depth >= 1
find_best_move(b, depth, player) ==
    LET moves == get_valid_moves_list(b, player) IN
    IF moves = <<>> THEN SearchResultDefault
    ELSE BestOf(depth, MoveEvaluations(b, moves, 1, depth, player))

RECURSIVE BoardAfterCandidates(_, _, _, _)
\* the board behind `board: &Board` after the candidates moves[i..] of one
\* move loop were tried
BoardAfterCandidates(b, moves, i, current_player) ==
    IF i > Len(moves) THEN b
    ELSE BoardAfterCandidates(TryCandidate(b, moves[i], current_player).board,
                              moves, i + 1, current_player)

RECURSIVE BoardAfterMinimax(_, _, _, _)
\* the board behind `board: &Board` when minimax returns: no candidate is
\* tried at a leaf, a pass recurses on the same reference, and the calls on
\* the copies cannot reach it
BoardAfterMinimax(b, depth, maximizing, player) ==
    IF depth = 0 \/ is_game_over(b) THEN b
    ELSE LET current_player == IF maximizing THEN player ELSE opposite(player)
             moves == get_valid_moves_list(b, current_player)
         IN  IF moves = <<>>
             THEN BoardAfterMinimax(b, depth - 1, ~maximizing, player)
             ELSE BoardAfterCandidates(b, moves, 1, current_player)

\* the board behind `board: &Board` when find_best_move returns
BoardAfterFindBestMove(b, depth, player) ==
    BoardAfterCandidates(b, get_valid_moves_list(b, player), 1, player)

----------------------------------------------------------------------------
(* The program as a state machine *)

\* `position: u8` arguments tried: every cell, and two values off the board
PosInputs == Positions \cup {64, 255}

\* cells the boards of InitBoards may occupy: the right end of row 0, the top
\* of column 7 and the left end of row 1 (the cell after 7 in bit order), then
\* cells on the diagonals between them
RegionCells == <<5, 6, 7, 8, 15, 23, 14, 13, 22, 21>>
Region == {RegionCells[i] : i \in 1..RegionSize}

\* no call of minimax or find_best_move made yet
NoProbe ==
    [fn |-> "none", depth |-> 0, alpha |-> 0, beta |-> 0, maximizing |-> FALSE,
     player |-> Black, eval |-> 0, result |-> SearchResultDefault]

\* find_best_move_with_time_limit not called yet
NoSearch ==
    [pc |-> "idle", player |-> Black, time_limit |-> 0, max_depth |-> 0,
     depth |-> 0, elapsed |-> 0, result |-> SearchResultDefault,
     best_result |-> SearchResultDefault,
     pre |-> <<>>, started |-> <<>>, results |-> <<>>, post |-> <<>>,
     accepted |-> <<>>]

\* an AiPlayer on which get_ai_move has not been called.  first_return holds
\* what its first call returned and last_return what the call that ended last
\* returned, both empty until then; last_return is empty while a call runs,
\* and its field `again` tells that the call was not the first.
NoAi ==
    [pc |-> "idle", difficulty |-> "Expert", color |-> White, player |-> White,
     first_return |-> <<>>, last_return |-> <<>>,
     current_task |-> <<>>, is_thinking |-> FALSE,
     spawned |-> 0, refused |-> 0, delivered |-> 0, last_call |-> "none",
     started_on |-> <<>>, last_check |-> [some |-> FALSE, result |-> <<>>]]

\* no find_best_move call with tasks in flight
NoTasks ==
    [pc |-> "idle", depth |-> 0, player |-> Black, moves |-> <<>>,
     evaluations |-> <<>>, finished |-> <<>>, result |-> SearchResultDefault]

\* no press in this frame
NoClick == 64

\* the Playing state has not been entered.  pc is the system that runs
\* next, state and next_state are State<GameState> and NextState<GameState>,
\* has_board tells that the Board and AiPlayer entities exist, and the event
\* fields hold the events written and not yet read.  The other fields
\* remember the frame: `click` is the press handle_input saw, `press` the
\* button pressed, `moved` and `moved_by` the colour that moved in the
\* gameplay system that ran last and the event it moved for, `searched`
\* tells that the last ai_system called get_ai_move, `ticked` that a frame
\* began since that call, `over_seen` that check_game_over found the board
\* game over in this frame, and `restarted` that the game was set up after
\* an earlier one.
NoGame ==
    [pc |-> "none", state |-> "LoadingScreen", next_state |-> None,
     current_player |-> Black, selected_difficulty |-> "Intermediate",
     has_board |-> FALSE, player_events |-> <<>>, ai_events |-> <<>>,
     restart_events |-> FALSE, back_events |-> FALSE,
     timer_finished |-> FALSE, moves |-> 0, moved |-> None,
     moved_by |-> None, click |-> NoClick, press |-> "none",
     searched |-> FALSE, ticked |-> FALSE, over_seen |-> FALSE,
     restarted |-> FALSE]

Init ==
    /\ board = BoardNew
    /\ calls = 0
    /\ lastPos = 0
    /\ lastPlayer = Black
    /\ lastRet = FALSE
    /\ prevBoard = BoardNew
    /\ repeated = FALSE
    /\ probe = NoProbe
    /\ search = NoSearch
    /\ ai = NoAi
    /\ tasks = NoTasks
    /\ game = NoGame

\* any board without a doubly occupied cell whose discs lie in Region
InitBoards ==
    /\ \E blk \in SUBSET Region : \E wht \in SUBSET (Region \ blk) :
           board = [black |-> blk, white |-> wht]
    /\ calls = 0
    /\ lastPos = 0
    /\ lastPlayer = Black
    /\ lastRet = FALSE
    /\ prevBoard = board
    /\ repeated = FALSE
    /\ probe = NoProbe
    /\ search = NoSearch
    /\ ai = NoAi
    /\ tasks = NoTasks
    /\ game = NoGame

\* one call board.make_move(position, player)
MakeMove(position, player) ==
    LET res == make_move(board, position, player) IN
    /\ board' = res.board
    /\ lastRet' = res.ret
    /\ lastPos' = position
    /\ lastPlayer' = player
    /\ prevBoard' = board
    /\ repeated' = (calls > 0 /\ ~lastRet /\ lastPos = position /\ lastPlayer = player)
    /\ calls' = calls + 1
    /\ UNCHANGED <<probe, search, ai, tasks, game>>

Next ==
    /\ calls < MaxCalls
    /\ \E position \in PosInputs : \E player \in PlayerColor :
           MakeMove(position, player)

\* one call on a drawn board
NextOnce ==
    /\ calls = 0
    /\ \E position \in PosInputs : \E player \in PlayerColor :
           MakeMove(position, player)

Spec == Init /\ [][Next]_vars

SpecBoards == InitBoards /\ [][NextOnce]_vars

----------------------------------------------------------------------------
(* Calls of minimax and find_best_move on drawn boards *)

\* the boards after 0, 1, 2 and 3 moves of the game that opens 20, 19, 10
\* (Black, White, Black)
PlayedBoards ==
    LET b1 == make_move(BoardNew, 20, Black).board
        b2 == make_move(b1, 19, White).board
        b3 == make_move(b2, 10, Black).board
    IN  {BoardNew, b1, b2, b3}

SearchRegion == {RegionCells[i] : i \in 1..SearchRegionSize}

\* the (alpha, beta) windows tried: the full window of find_best_move and a
\* narrow one
Windows == {<<I32_MIN, I32_MAX>>, <<-30, 30>>}

\* a played board, or any board whose discs lie in SearchRegion
InitSearch ==
    /\ \/ board \in PlayedBoards
       \/ \E blk \in SUBSET SearchRegion : \E wht \in SUBSET (SearchRegion \ blk) :
              board = [black |-> blk, white |-> wht]
    /\ calls = 0
    /\ lastPos = 0
    /\ lastPlayer = Black
    /\ lastRet = FALSE
    /\ prevBoard = board
    /\ repeated = FALSE
    /\ probe = NoProbe
    /\ search = NoSearch
    /\ ai = NoAi
    /\ tasks = NoTasks
    /\ game = NoGame

\* one call minimax(&board, depth, alpha, beta, maximizing, player)
CallMinimax(depth, alpha, beta, maximizing, player) ==
    /\ probe.fn = "none"
    /\ probe' = [fn |-> "minimax", depth |-> depth, alpha |-> alpha,
                 beta |-> beta, maximizing |-> maximizing, player |-> player,
                 eval |-> minimax(board, depth, alpha, beta, maximizing, player),
                 result |-> SearchResultDefault]
    /\ board' = BoardAfterMinimax(board, depth, maximizing, player)
    /\ UNCHANGED <<calls, lastPos, lastPlayer, lastRet, prevBoard,
                   repeated, search, ai, tasks, game>>

\* one call find_best_move(&board, depth, player)
CallFindBestMove(depth, player) ==
    /\ probe.fn = "none"
    /\ probe' = [fn |-> "find_best_move", depth |-> depth, alpha |-> 0,
                 beta |-> 0, maximizing |-> FALSE, player |-> player,
                 eval |-> 0,
                 result |-> find_best_move(board, depth, player)]
    /\ board' = BoardAfterFindBestMove(board, depth, player)
    /\ UNCHANGED <<calls, lastPos, lastPlayer, lastRet, prevBoard,
                   repeated, search, ai, tasks, game>>

NextSearch ==
    \/ \E depth \in 0..(MaxDepth - 1) : \E w \in Windows :
       \E maximizing \in BOOLEAN : \E player \in PlayerColor :
           CallMinimax(depth, w[1], w[2], maximizing, player)
    \/ \E depth \in 1..MaxDepth : \E player \in PlayerColor :
           CallFindBestMove(depth, player)

SpecSearch == InitSearch /\ [][NextSearch]_vars

----------------------------------------------------------------------------
(* find_best_move_with_time_limit, with the clock read at each check *)

\* find_best_move_with_time_limit as built for wasm, where no clock is
\* read: `find_best_move(board, max_depth, player)`
find_best_move_with_time_limit_wasm(b, time_limit, max_depth, player) ==
    find_best_move(b, max_depth, player)

\* Time is counted in ticks.  A reading of start_time.elapsed() is any of
\* these values not below the previous reading.
ClockReadings == {0, 8, 9, 10, 11}

\* the `time_limit` arguments tried, in ticks
TimeLimits == {0, 10}

\* ReachedNinetyPercent comparing with the whole limit
ReachedWholeLimit(elapsed, time_limit) == elapsed >= time_limit

\* `elapsed >= time_limit.mul_f32(0.9)`.  mul_f32 rounds the product to an
\* f32 number of seconds (a relative error below 2^-23), which is finer than
\* a tick for the limits tried.
ReachedNinetyPercent(elapsed, time_limit) == 10 * elapsed >= 9 * time_limit

\* boards searched under a time limit: the played boards, a board on which
\* White has no move and Black has one, and a finished game
TimedBoards ==
    PlayedBoards \cup {[black |-> {6, 7}, white |-> {5}],
                       [black |-> {5, 6, 7}, white |-> {}]}

InitTimed ==
    /\ board \in TimedBoards
    /\ calls = 0
    /\ lastPos = 0
    /\ lastPlayer = Black
    /\ lastRet = FALSE
    /\ prevBoard = board
    /\ repeated = FALSE
    /\ probe = NoProbe
    /\ search = NoSearch
    /\ ai = NoAi
    /\ tasks = NoTasks
    /\ game = NoGame

\* entry: `let start_time = Instant::now(); let mut best_result = default`
\* and the first turn of `for depth in 1..=max_depth`
Enter(time_limit, max_depth, player) ==
    /\ search.pc = "idle"
    /\ search' = [search EXCEPT !.pc = "loop", !.player = player,
                                !.time_limit = time_limit,
                                !.max_depth = max_depth, !.depth = 1,
                                !.elapsed = 0,
                                !.best_result = SearchResultDefault]
    /\ UNCHANGED <<board, calls, lastPos, lastPlayer, lastRet, prevBoard,
                   repeated, probe, ai, tasks, game>>

\* LoopHead over the range 1..max_depth, max_depth excluded
LoopHeadStopsEarly(now) ==
    /\ search.pc = "loop"
    /\ IF search.depth >= search.max_depth
       THEN /\ now = search.elapsed
            /\ search' = [search EXCEPT !.pc = "return"]
       ELSE /\ now >= search.elapsed
            /\ search' = [search EXCEPT
                   !.elapsed = now,
                   !.pre = Append(@, now),
                   !.pc = IF ReachedNinetyPercent(now, search.time_limit)
                          THEN "return" ELSE "search"]
    /\ UNCHANGED <<board, calls, lastPos, lastPlayer, lastRet, prevBoard,
                   repeated, probe, ai, tasks, game>>

\* head of the loop: the range is exhausted, or the clock is read and
\* compared with 90% of the limit
LoopHead(now) ==
    /\ search.pc = "loop"
    /\ IF search.depth > search.max_depth
       THEN /\ now = search.elapsed
            /\ search' = [search EXCEPT !.pc = "return"]
       ELSE /\ now >= search.elapsed
            /\ search' = [search EXCEPT
                   !.elapsed = now,
                   !.pre = Append(@, now),
                   !.pc = IF ReachedNinetyPercent(now, search.time_limit)
                          THEN "return" ELSE "search"]
    /\ UNCHANGED <<board, calls, lastPos, lastPlayer, lastRet, prevBoard,
                   repeated, probe, ai, tasks, game>>

\* `let result = find_best_move(board, depth, player)`
RunDepth ==
    /\ search.pc = "search"
    /\ LET result == find_best_move(board, search.depth, search.player) IN
       search' = [search EXCEPT !.pc = "check", !.result = result,
                                !.started = Append(@, search.depth),
                                !.results = Append(@, result)]
    /\ board' = BoardAfterFindBestMove(board, search.depth, search.player)
    /\ UNCHANGED <<calls, lastPos, lastPlayer, lastRet, prevBoard,
                   repeated, probe, ai, tasks, game>>

\* KeepOrBreak storing the result before the clock is read
KeepOrBreakKeepsLate(now) ==
    /\ search.pc = "check"
    /\ now >= search.elapsed
    /\ search' = IF now < search.time_limit
                 THEN [search EXCEPT !.pc = "loop", !.elapsed = now,
                                     !.post = Append(@, now),
                                     !.best_result = search.result,
                                     !.accepted = Append(@, search.depth),
                                     !.depth = @ + 1]
                 ELSE [search EXCEPT !.pc = "return", !.elapsed = now,
                                     !.post = Append(@, now),
                                     !.best_result = search.result]
    /\ UNCHANGED <<board, calls, lastPos, lastPlayer, lastRet, prevBoard,
                   repeated, probe, ai, tasks, game>>

\* KeepOrBreak keeping a result that finished exactly at time_limit
KeepOrBreakAtLimit(now) ==
    /\ search.pc = "check"
    /\ now >= search.elapsed
    /\ search' = IF now <= search.time_limit
                 THEN [search EXCEPT !.pc = "loop", !.elapsed = now,
                                     !.post = Append(@, now),
                                     !.best_result = search.result,
                                     !.accepted = Append(@, search.depth),
                                     !.depth = @ + 1]
                 ELSE [search EXCEPT !.pc = "return", !.elapsed = now,
                                     !.post = Append(@, now)]
    /\ UNCHANGED <<board, calls, lastPos, lastPlayer, lastRet, prevBoard,
                   repeated, probe, ai, tasks, game>>

\* `if start_time.elapsed() < time_limit { best_result = result } else { break }`
KeepOrBreak(now) ==
    /\ search.pc = "check"
    /\ now >= search.elapsed
    /\ search' = IF now < search.time_limit
                 THEN [search EXCEPT !.pc = "loop", !.elapsed = now,
                                     !.post = Append(@, now),
                                     !.best_result = search.result,
                                     !.accepted = Append(@, search.depth),
                                     !.depth = @ + 1]
                 ELSE [search EXCEPT !.pc = "return", !.elapsed = now,
                                     !.post = Append(@, now)]
    /\ UNCHANGED <<board, calls, lastPos, lastPlayer, lastRet, prevBoard,
                   repeated, probe, ai, tasks, game>>

NextTimed ==
    \/ \E time_limit \in TimeLimits : \E max_depth \in 0..MaxIterDepth :
       \E player \in PlayerColor : Enter(time_limit, max_depth, player)
    \/ \E now \in ClockReadings : LoopHead(now)
    \/ RunDepth
    \/ \E now \in ClockReadings : KeepOrBreak(now)

SpecTimed == InitTimed /\ [][NextTimed]_vars

----------------------------------------------------------------------------
(* ai/difficulty.rs *)

AiDifficulty == {"Beginner", "Intermediate", "Advanced", "Expert"}

\* mistake_probability and random::<f32>() are f32 values in [0, 1], kept as
\* their numerators over 2^28
ProbUnit == 2 ^ 28

\* The f32 literal hundredths / 100 of get_search_params, as its numerator
\* over 2^28 (0.3 is 5033165 / 2^24, 0.15 is 5033165 / 2^25, 0.05 is
\* 13421773 / 2^28).
F32Prob(hundredths) ==
    CASE hundredths = 30 -> 80530640
      [] hundredths = 15 -> 40265320
      [] hundredths = 5 -> 13421773
      [] hundredths = 0 -> 0

\* get_search_params with the depths of Advanced and Expert exchanged
get_search_params_depths_swapped(difficulty) ==
    CASE difficulty = "Beginner" ->
             [max_depth |-> 2, time_limit |-> 100,
              mistake_probability |-> F32Prob(30), use_opening_book |-> FALSE]
      [] difficulty = "Intermediate" ->
             [max_depth |-> 4, time_limit |-> 500,
              mistake_probability |-> F32Prob(15), use_opening_book |-> FALSE]
      [] difficulty = "Advanced" ->
             [max_depth |-> 12, time_limit |-> 2000,
              mistake_probability |-> F32Prob(5), use_opening_book |-> TRUE]
      [] difficulty = "Expert" ->
             [max_depth |-> 6, time_limit |-> 5000,
              mistake_probability |-> F32Prob(0), use_opening_book |-> TRUE]

\* get_search_params with the mistake probability of Beginner for Expert
get_search_params_expert_errs(difficulty) ==
    CASE difficulty = "Beginner" ->
             [max_depth |-> 2, time_limit |-> 100,
              mistake_probability |-> F32Prob(30), use_opening_book |-> FALSE]
      [] difficulty = "Intermediate" ->
             [max_depth |-> 4, time_limit |-> 500,
              mistake_probability |-> F32Prob(15), use_opening_book |-> FALSE]
      [] difficulty = "Advanced" ->
             [max_depth |-> 6, time_limit |-> 2000,
              mistake_probability |-> F32Prob(5), use_opening_book |-> TRUE]
      [] difficulty = "Expert" ->
             [max_depth |-> 12, time_limit |-> 5000,
              mistake_probability |-> F32Prob(30), use_opening_book |-> TRUE]

\* time_limit is in milliseconds
get_search_params(difficulty) ==
    CASE difficulty = "Beginner" ->
             [max_depth |-> 2, time_limit |-> 100,
              mistake_probability |-> F32Prob(30), use_opening_book |-> FALSE]
      [] difficulty = "Intermediate" ->
             [max_depth |-> 4, time_limit |-> 500,
              mistake_probability |-> F32Prob(15), use_opening_book |-> FALSE]
      [] difficulty = "Advanced" ->
             [max_depth |-> 6, time_limit |-> 2000,
              mistake_probability |-> F32Prob(5), use_opening_book |-> TRUE]
      [] difficulty = "Expert" ->
             [max_depth |-> 12, time_limit |-> 5000,
              mistake_probability |-> F32Prob(0), use_opening_book |-> TRUE]

\* `random::<f32>()` is a multiple of 2^-24 in [0, 1).  The draws tried for
\* a probability: the least and the greatest draw, the greatest draw below
\* the probability and the least draw not below it.  With probability 0.0
\* the `&&` of get_ai_move does not call random.
RandomDraws(mistake_probability) ==
    LET step == ProbUnit \div (2 ^ 24)
        below == ((mistake_probability - 1) \div step) * step
    IN  IF mistake_probability = 0 THEN {0}
        ELSE {0, below, below + step, ProbUnit - step}

\* `gen_range(0..valid_moves.len())`; not called on an empty list
RandomIndices(valid_moves) ==
    IF valid_moves = <<>> THEN {0} ELSE 0..(Len(valid_moves) - 1)

\* make_random_mistake taking the index for the position
make_random_mistake_any_cell(b, player, random_index) ==
    LET valid_moves == get_valid_moves_list(b, player) IN
    IF valid_moves = <<>> THEN NoMove
    ELSE Some(random_index)

make_random_mistake(b, player, random_index) ==
    LET valid_moves == get_valid_moves_list(b, player) IN
    IF valid_moves = <<>> THEN NoMove
    ELSE Some(valid_moves[random_index + 1])

\* boards on which get_ai_move is called: the start, the board after the
\* first move, a board on which White has no move and Black has one, and a
\* finished game
AiBoards ==
    {BoardNew, make_move(BoardNew, 20, Black).board,
     [black |-> {6, 7}, white |-> {5}], [black |-> {5, 6, 7}, white |-> {}]}

\* AiPlayer::new(difficulty, color) beside a board
InitAi ==
    /\ board \in AiBoards
    /\ calls = 0
    /\ lastPos = 0
    /\ lastPlayer = Black
    /\ lastRet = FALSE
    /\ prevBoard = board
    /\ repeated = FALSE
    /\ probe = NoProbe
    /\ search = NoSearch
    /\ \E difficulty \in AiDifficulty : \E color \in PlayerColor :
           ai = [NoAi EXCEPT !.difficulty = difficulty, !.color = color]
    /\ tasks = NoTasks
    /\ game = NoGame

\* the elapsed times read from the clock during a search with this limit, in
\* milliseconds: none, 90% of the limit, and all of it
AiClock(time_limit) == {0, (9 * time_limit) \div 10, time_limit}

\* get_ai_move up to its call of find_best_move_with_time_limit, and the
\* entry of that function
GetAiMoveCall(player) ==
    /\ ai.pc = "idle"
    /\ search.pc \in {"idle", "return"}
    /\ LET params == get_search_params(ai.difficulty) IN
       search' = [NoSearch EXCEPT !.pc = "loop", !.player = player,
                                  !.time_limit = params.time_limit,
                                  !.max_depth = params.max_depth,
                                  !.depth = 1, !.elapsed = 0,
                                  !.best_result = SearchResultDefault]
    /\ ai' = [ai EXCEPT !.pc = "search", !.player = player,
                         !.last_return = <<>>]

\* a call of get_ai_move by a caller that does nothing else
GetAiMove(player) ==
    /\ GetAiMoveCall(player)
    /\ UNCHANGED <<board, calls, lastPos, lastPlayer, lastRet, prevBoard,
                   repeated, probe, tasks, game>>

\* the rest of get_ai_move, from the return of the timed search:
\* `if params.mistake_probability > 0.0 && random::<f32>() < ...`
GetAiMoveReturn(draw, random_index) ==
    /\ ai.pc = "search"
    /\ search.pc = "return"
    /\ LET params == get_search_params(ai.difficulty)
           result == search.best_result
           mistake == /\ params.mistake_probability > 0
                      /\ draw < params.mistake_probability
           ret == IF mistake
                  THEN make_random_mistake(board, ai.player, random_index)
                  ELSE result.best_move
           returned == [ret |-> ret, draw |-> draw, mistake |-> mistake,
                        depth_reached |-> result.depth_reached,
                        again |-> ai.first_return # <<>>]
       IN  ai' = [ai EXCEPT !.pc = "idle",
                            !.last_return = <<returned>>,
                            !.first_return =
                                IF @ = <<>>
                                THEN <<[ret |-> ret,
                                        depth_reached |-> result.depth_reached]>>
                                ELSE @]

\* the return of get_ai_move to a caller that does nothing else
ReturnAiMove(draw, random_index) ==
    /\ GetAiMoveReturn(draw, random_index)
    /\ UNCHANGED <<board, calls, lastPos, lastPlayer, lastRet, prevBoard,
                   repeated, probe, search, tasks, game>>

\* the clock reaches 90% of the limit before an iteration deeper than
\* MaxSearchedDepth starts
ClockCutsAt(now) ==
    (search.depth > MaxSearchedDepth /\ search.depth <= search.max_depth)
        => ReachedNinetyPercent(now, search.time_limit)

\* one AiPlayer asked for its move again and again
NextAi ==
    \/ GetAiMove(ai.color)
    \/ /\ ai.pc = "search"
       /\ \E now \in AiClock(search.time_limit) :
              ClockCutsAt(now) /\ LoopHead(now)
    \/ ai.pc = "search" /\ RunDepth
    \/ /\ ai.pc = "search"
       /\ \E now \in AiClock(search.time_limit) : KeepOrBreak(now)
    \/ /\ ai.pc = "search"
       /\ search.pc = "return"
       /\ \E draw \in RandomDraws(get_search_params(ai.difficulty).mistake_probability) :
          \E random_index \in RandomIndices(get_valid_moves_list(board, ai.player)) :
              ReturnAiMove(draw, random_index)

SpecAi == InitAi /\ [][NextAi]_vars

----------------------------------------------------------------------------
(* The parallel map of find_best_move, task by task *)

\* boards searched task by task: the start, the board after the first move,
\* and a board on which White has no move
ParBoards ==
    {BoardNew, make_move(BoardNew, 20, Black).board,
     [black |-> {6, 7}, white |-> {5}]}

InitPar ==
    /\ board \in ParBoards
    /\ calls = 0
    /\ lastPos = 0
    /\ lastPlayer = Black
    /\ lastRet = FALSE
    /\ prevBoard = board
    /\ repeated = FALSE
    /\ probe = NoProbe
    /\ search = NoSearch
    /\ ai = NoAi
    /\ tasks = NoTasks
    /\ game = NoGame

\* find_best_move up to `moves.par_iter()`: one task per move, none run yet
StartTasks(depth, player) ==
    /\ tasks.pc = "idle"
    /\ LET moves == get_valid_moves_list(board, player) IN
       tasks' = IF moves = <<>>
                THEN [tasks EXCEPT !.pc = "done", !.depth = depth,
                                   !.player = player,
                                   !.result = SearchResultDefault]
                ELSE [tasks EXCEPT !.pc = "map", !.depth = depth,
                                   !.player = player, !.moves = moves,
                                   !.evaluations = [i \in 1..Len(moves) |-> <<>>]]
    /\ UNCHANGED <<board, calls, lastPos, lastPlayer, lastRet, prevBoard,
                   repeated, probe, search, ai, game>>

\* one task of the map runs its closure, on a thread and at a time of
\* rayon's choosing: it reads the shared board and fills its own slot
RunTask(i) ==
    /\ tasks.pc = "map"
    /\ i \in 1..Len(tasks.moves)
    /\ tasks.evaluations[i] = <<>>
    /\ LET new_board == TryCandidate(board, tasks.moves[i], tasks.player).new_board
           evaluation == minimax(new_board, tasks.depth - 1, I32_MIN, I32_MAX,
                                 FALSE, tasks.player)
       IN  tasks' = [tasks EXCEPT !.evaluations[i] = <<evaluation>>,
                                  !.finished = Append(@, i)]
    /\ board' = TryCandidate(board, tasks.moves[i], tasks.player).board
    /\ UNCHANGED <<calls, lastPos, lastPlayer, lastRet, prevBoard,
                   repeated, probe, search, ai, game>>

RECURSIVE CollectedAsFinished(_, _, _, _)
\* Collected taking the pairs in the order in which the tasks finished
CollectedAsFinished(moves, evaluations, finished, k) ==
    IF k > Len(moves) THEN <<>>
    ELSE << <<moves[finished[k]], evaluations[finished[k]][1]>> >>
         \o CollectedAsFinished(moves, evaluations, finished, k + 1)

RECURSIVE Collected(_, _, _, _)
\* `.collect()` of the indexed parallel iterator: the pairs from the k-th on,
\* in the order of `moves`
Collected(moves, evaluations, finished, k) ==
    IF k > Len(moves) THEN <<>>
    ELSE << <<moves[k], evaluations[k][1]>> >>
         \o Collected(moves, evaluations, finished, k + 1)

\* every task has run: collect, take the maximum and return
CollectAndReturn ==
    /\ tasks.pc = "map"
    /\ \A i \in 1..Len(tasks.moves) : tasks.evaluations[i] # <<>>
    /\ tasks' = [tasks EXCEPT
           !.pc = "done",
           !.result = BestOf(tasks.depth,
                             Collected(tasks.moves, tasks.evaluations,
                                       tasks.finished, 1))]
    /\ UNCHANGED <<board, calls, lastPos, lastPlayer, lastRet, prevBoard,
                   repeated, probe, search, ai, game>>

NextPar ==
    \/ \E depth \in 1..MaxParDepth : \E player \in PlayerColor :
           StartTasks(depth, player)
    \/ \E i \in 1..Len(tasks.moves) : RunTask(i)
    \/ CollectAndReturn

SpecPar == InitPar /\ [][NextPar]_vars

----------------------------------------------------------------------------
(* ai/difficulty.rs: AiPlayer's search task, started and polled by a caller *)

\* the depth at which the clock cuts the search of a task at the latest
MaxThinkDepth == 1

\* the calls of start_thinking and check_thinking_result followed
MaxThinkCalls == 3

\* the moves made on the caller's board while it starts and polls tasks
MaxThinkMoves == 1

\* the values get_ai_move(b, player) can return: the best move of the
\* deepest iteration the clock let through (none when it let none through),
\* or for a tier that errs any one of the valid moves
get_ai_move_returns(b, difficulty, player) ==
    LET params == get_search_params(difficulty)
        valid_moves == get_valid_moves_list(b, player)
        deepest == IF params.max_depth < MaxThinkDepth THEN params.max_depth
                   ELSE MaxThinkDepth
        searched == {IF depth = 0 THEN NoMove
                     ELSE find_best_move(b, depth, player).best_move :
                         depth \in 0..deepest}
        mistakes == IF params.mistake_probability > 0
                    THEN {make_random_mistake(b, player, random_index) :
                              random_index \in RandomIndices(valid_moves)}
                    ELSE {}
    IN  searched \cup mistakes

\* start_thinking without its early return
start_thinking_unguarded(a, b) ==
    [a EXCEPT !.current_task =
                  <<[board_copy |-> b, difficulty |-> a.difficulty,
                     player |-> a.color, done |-> FALSE, result |-> NoMove]>>,
              !.is_thinking = TRUE,
              !.spawned = @ + 1]

\* start_thinking(&board): returns at once when a task exists or is_thinking
\* is set; otherwise copies the board and spawns the task
start_thinking(a, b) ==
    IF a.current_task # <<>> \/ a.is_thinking
    THEN [a EXCEPT !.refused = @ + 1]
    ELSE [a EXCEPT !.current_task =
                       <<[board_copy |-> b, difficulty |-> a.difficulty,
                          player |-> a.color, done |-> FALSE,
                          result |-> NoMove]>>,
                   !.is_thinking = TRUE,
                   !.spawned = @ + 1]

\* check_thinking_result handing the result over without taking the task out
check_thinking_result_keeps_task(a) ==
    IF a.current_task # <<>> /\ a.current_task[1].done
    THEN [a EXCEPT !.delivered = @ + 1,
                   !.last_check = [some |-> TRUE,
                                   result |-> a.current_task[1].result]]
    ELSE [a EXCEPT !.last_check = [some |-> FALSE, result |-> NoMove]]

\* check_thinking_result: Some(result) when poll_once finds the task
\* finished, and the task is taken out; None otherwise
check_thinking_result(a) ==
    IF a.current_task # <<>> /\ a.current_task[1].done
    THEN [a EXCEPT !.current_task = <<>>,
                   !.is_thinking = FALSE,
                   !.delivered = @ + 1,
                   !.last_check = [some |-> TRUE,
                                   result |-> a.current_task[1].result]]
    ELSE [a EXCEPT !.last_check = [some |-> FALSE, result |-> NoMove]]

\* the board of the caller when the first task is started: White, the AI,
\* is to move after Black's opening move
ThinkBoards == {make_move(BoardNew, 20, Black).board}

\* the tiers of the AiPlayers followed: one that errs, one that does not
ThinkDifficulties == {"Beginner", "Expert"}

\* AiPlayer::new(difficulty, White)
InitThink ==
    /\ board \in ThinkBoards
    /\ calls = 0
    /\ lastPos = 0
    /\ lastPlayer = Black
    /\ lastRet = FALSE
    /\ prevBoard = board
    /\ repeated = FALSE
    /\ probe = NoProbe
    /\ search = NoSearch
    /\ \E difficulty \in ThinkDifficulties :
           ai = [NoAi EXCEPT !.difficulty = difficulty, !.color = White]
    /\ tasks = NoTasks
    /\ game = NoGame

\* the caller calls ai_player.start_thinking(&board)
StartThinking ==
    /\ calls < MaxThinkCalls
    /\ calls' = calls + 1
    /\ ai' = [start_thinking(ai, board) EXCEPT
                  !.last_call = "start_thinking",
                  !.started_on = IF ai.current_task = <<>> /\ ~ai.is_thinking
                                 THEN <<board>> ELSE @]
    /\ UNCHANGED <<board, lastPos, lastPlayer, lastRet, prevBoard, repeated,
                   probe, search, tasks, game>>

\* the task pool runs the task to its end: get_ai_move on the task's copy of
\* the board returns ret
TaskRuns(ret) ==
    /\ ai.current_task # <<>>
    /\ ~ai.current_task[1].done
    /\ ai' = [ai EXCEPT !.current_task[1].done = TRUE,
                        !.current_task[1].result = ret]
    /\ UNCHANGED <<board, calls, lastPos, lastPlayer, lastRet, prevBoard,
                   repeated, probe, search, tasks, game>>

\* the caller calls ai_player.check_thinking_result()
CheckThinkingResult ==
    /\ calls < MaxThinkCalls
    /\ calls' = calls + 1
    /\ ai' = [check_thinking_result(ai) EXCEPT
                  !.last_call = "check_thinking_result"]
    /\ UNCHANGED <<board, lastPos, lastPlayer, lastRet, prevBoard, repeated,
                   probe, search, tasks, game>>

\* the caller's board changes between its calls: the AI's opponent moves,
\* while the board of ThinkBoards, of 5 discs, has gained fewer than
\* MaxThinkMoves
BoardMoves(position) ==
    /\ count_pieces(board, Black) + count_pieces(board, White)
           < 5 + MaxThinkMoves
    /\ make_move(board, position, opposite(ai.color)).ret
    /\ board' = make_move(board, position, opposite(ai.color)).board
    /\ UNCHANGED <<calls, lastPos, lastPlayer, lastRet, prevBoard, repeated,
                   probe, search, ai, tasks, game>>

NextThink ==
    \/ StartThinking
    \/ /\ ai.current_task # <<>>
       /\ ~ai.current_task[1].done
       /\ \E ret \in get_ai_move_returns(ai.current_task[1].board_copy,
                                          ai.current_task[1].difficulty,
                                          ai.current_task[1].player) :
              TaskRuns(ret)
    \/ CheckThinkingResult
    \/ \E position \in get_valid_moves(board, opposite(ai.color)) :
           BoardMoves(position)

SpecThink == InitThink /\ [][NextThink]_vars

----------------------------------------------------------------------------
(* main.rs: the gameplay systems of the Playing state, one frame after another *)

RECURSIVE Played(_, _, _, _)
\* the board after the first n moves of a game in which no turn is skipped
Played(b, line, n, player) ==
    IF n = 0 THEN b
    ELSE Played(make_move(b, line[1], player).board, Tail(line), n - 1,
                opposite(player))

\* two games from Board::new(): in the first White's 8th move (5) leaves
\* Black without a move, in the second Black's 9th move (14) takes the last
\* White disc
PassLine == <<20, 21, 22, 14, 34, 23, 7, 5>>
WipeoutLine == <<20, 19, 10, 13, 12, 21, 34, 11, 14>>

\* boards on which the frames are followed, all with Black to move: the
\* start, the first game after 6 moves and the second after 8
GameBoards ==
    {BoardNew, Played(BoardNew, PassLine, 6, Black),
     Played(BoardNew, WipeoutLine, 8, Black)}

\* the tiers selected for the games followed
GameDifficulties == {"Beginner", "Expert"}

\* the cells pressed by the human: moves of the games above (21 is White's
\* reply to 20), and a corner
ClickCells == {7, 14, 20, 21, 63}

\* the states of GameState the games followed pass through
GameState == {"DifficultySelection", "Playing", "GameOver", "Restarting"}

\* the first system of a frame in each state
FirstSystem(state) ==
    CASE state = "Playing" -> "handle_input"
      [] state = "GameOver" -> "handle_game_over_input"
      [] state = "Restarting" -> "handle_restart_state"
      [] state = "DifficultySelection" -> "handle_difficulty_selection"

\* setup_game, or a later frame of a game with Black to move and the
\* thinking timer reset
InitGame ==
    /\ board \in GameBoards
    /\ calls = 0
    /\ lastPos = 0
    /\ lastPlayer = Black
    /\ lastRet = FALSE
    /\ prevBoard = board
    /\ repeated = FALSE
    /\ probe = NoProbe
    /\ search = NoSearch
    /\ \E difficulty \in GameDifficulties :
           /\ ai = [NoAi EXCEPT !.difficulty = difficulty, !.color = White]
           /\ game = [NoGame EXCEPT !.pc = "handle_input", !.state = "Playing",
                                    !.has_board = TRUE,
                                    !.selected_difficulty = difficulty,
                                    !.current_player = Black]
    /\ tasks = NoTasks

\* next_turn handing the turn over whatever the board
next_turn_always_switches(b, current_player) == opposite(current_player)

\* `let next_player = current_player.0.opposite(); if
\* board.has_valid_moves(next_player) { current_player.0 = next_player }`
next_turn(b, current_player) ==
    IF has_valid_moves(b, opposite(current_player))
    THEN opposite(current_player)
    ELSE current_player

\* handle_input without its check of whose turn it is
handle_input_any_turn(click, ai_color, current_player, player_events) ==
    IF click = NoClick THEN player_events ELSE Append(player_events, click)

\* handle_input: the PlayerMoveEvents after a frame with this press (a cell
\* of the board, or NoClick); nothing is written in the AI's turn
handle_input(click, ai_color, current_player, player_events) ==
    IF click = NoClick \/ ai_color = current_player THEN player_events
    ELSE Append(player_events, click)

\* handle_input: a frame of the Playing state begins.  The frames followed
\* end after MaxGameMoves moves of a game.
HandleInput(click) ==
    /\ game.pc = "handle_input"
    /\ game.moves < MaxGameMoves
    /\ game' = [game EXCEPT
           !.pc = "handle_player_move",
           !.ticked = TRUE,
           !.over_seen = FALSE,
           !.click = click,
           !.player_events =
               handle_input(click, ai.color, game.current_player, @)]
    /\ UNCHANGED <<board, calls, lastPos, lastPlayer, lastRet, prevBoard,
                   repeated, probe, search, ai, tasks>>

\* handle_player_move, for the event of this frame if there is one
HandlePlayerMove ==
    /\ game.pc = "handle_player_move"
    /\ IF game.player_events # <<>>
          /\ is_valid_move(board, game.player_events[1], game.current_player)
       THEN LET res == make_move(board, game.player_events[1],
                                 game.current_player) IN
            /\ board' = res.board
            /\ prevBoard' = board
            /\ game' = [game EXCEPT
                   !.pc = "handle_ai_move", !.player_events = <<>>,
                   !.click = NoClick,
                   !.current_player = next_turn(res.board, game.current_player),
                   !.moved = game.current_player, !.moved_by = "player",
                   !.moves = @ + 1]
       ELSE /\ game' = [game EXCEPT !.pc = "handle_ai_move",
                                    !.player_events = <<>>,
                                    !.click = NoClick,
                                    !.moved = None, !.moved_by = None]
            /\ UNCHANGED <<board, prevBoard>>
    /\ UNCHANGED <<calls, lastPos, lastPlayer, lastRet, repeated, probe,
                   search, ai, tasks>>

\* handle_ai_move reading the event and leaving the board alone
HandleAiMoveDropsEvent ==
    /\ game.pc = "handle_ai_move"
    /\ game' = [game EXCEPT !.pc = "ai_system", !.ai_events = <<>>,
                            !.moved = None, !.moved_by = None]
    /\ UNCHANGED <<board, prevBoard, calls, lastPos, lastPlayer, lastRet,
                   repeated, probe, search, ai, tasks>>

\* handle_ai_move, for the event the last frame's ai_system wrote
HandleAiMove ==
    /\ game.pc = "handle_ai_move"
    /\ IF game.ai_events # <<>>
          /\ make_move(board, game.ai_events[1], game.current_player).ret
       THEN LET res == make_move(board, game.ai_events[1],
                                 game.current_player) IN
            /\ board' = res.board
            /\ prevBoard' = board
            /\ game' = [game EXCEPT
                   !.pc = "ai_system", !.ai_events = <<>>,
                   !.current_player = next_turn(res.board, game.current_player),
                   !.moved = game.current_player, !.moved_by = "ai",
                   !.moves = @ + 1]
       ELSE /\ game' = [game EXCEPT !.pc = "ai_system", !.ai_events = <<>>,
                                    !.moved = None, !.moved_by = None]
            /\ UNCHANGED <<board, prevBoard>>
    /\ UNCHANGED <<calls, lastPos, lastPlayer, lastRet, repeated, probe,
                   search, ai, tasks>>

\* ai_system up to its call of get_ai_move: it returns when it is not the
\* AI's turn or the thinking timer has not finished.  `finishes` tells
\* whether time.delta() takes the timer to its end in this frame.
AiSystem(finishes) ==
    /\ game.pc = "ai_system"
    /\ IF ai.color # game.current_player
       THEN /\ game' = [game EXCEPT !.pc = "check_game_over",
                                    !.searched = FALSE]
            /\ UNCHANGED <<search, ai>>
       ELSE IF game.timer_finished \/ finishes
       THEN /\ GetAiMoveCall(ai.color)
            /\ game' = [game EXCEPT !.pc = "get_ai_move",
                                    !.timer_finished = TRUE,
                                    !.searched = TRUE, !.ticked = FALSE]
       ELSE /\ game' = [game EXCEPT !.pc = "check_game_over",
                                    !.searched = FALSE]
            /\ UNCHANGED <<search, ai>>
    /\ UNCHANGED <<board, calls, lastPos, lastPlayer, lastRet, prevBoard,
                   repeated, probe, tasks>>

\* the rest of ai_system, from the return of get_ai_move
AiSystemReturn(draw, random_index) ==
    /\ game.pc = "get_ai_move"
    /\ GetAiMoveReturn(draw, random_index)
    /\ game' = IF ai'.last_return[1].ret # NoMove
               THEN [game EXCEPT
                        !.pc = "check_game_over",
                        !.ai_events = Append(@, ai'.last_return[1].ret[1]),
                        !.timer_finished = FALSE]
               ELSE [game EXCEPT !.pc = "check_game_over"]
    /\ UNCHANGED <<board, calls, lastPos, lastPlayer, lastRet, prevBoard,
                   repeated, probe, search, tasks>>

\* check_game_over leaving the state alone
check_game_over_never(b, next_state) == next_state

\* check_game_over: `if board.is_game_over() { ...
\* next_state.set(GameState::GameOver) }`
check_game_over(b, next_state) ==
    IF is_game_over(b) THEN "GameOver" ELSE next_state

\* check_game_over, the last system of the gameplay chain; the buttons of
\* the UI set follow
CheckGameOver ==
    /\ game.pc = "check_game_over"
    /\ game' = [game EXCEPT !.pc = "buttons",
                            !.over_seen = is_game_over(board),
                            !.next_state = check_game_over(board, @)]
    /\ UNCHANGED <<board, calls, lastPos, lastPlayer, lastRet, prevBoard,
                   repeated, probe, search, ai, tasks>>

\* what is pressed in a frame besides the board
Presses == {"none", "restart", "back"}

\* update_game_status_text: which of the three status texts is shown
update_game_status_text(b, current_player) ==
    IF is_game_over(b) THEN "game_over"
    ELSE IF ~has_valid_moves(b, current_player) THEN "pass_turn"
    ELSE "game_in_progress"

\* handle_restart_button and handle_back_to_difficulty_button, of the UI set
\* of the Playing state; the gameplay chain of the frame has ended
HandleButtons(press) ==
    /\ game.pc = "buttons"
    /\ game' = [game EXCEPT !.pc = "common", !.press = press,
                            !.moved = None, !.moved_by = None,
                            !.restart_events = @ \/ press = "restart",
                            !.back_events = @ \/ press = "back"]
    /\ UNCHANGED <<board, calls, lastPos, lastPlayer, lastRet, prevBoard,
                   repeated, probe, search, ai, tasks>>

\* the system of the state that follows in a frame begun by system `first`
AfterFirst(g, first) == IF g.pc = first THEN "common" ELSE "transition"

\* handle_game_over_input: any key, touch or mouse press asks for a restart
HandleGameOverInput(pressed) ==
    /\ game.pc \in {"handle_game_over_input", "late_handle_game_over_input"}
    /\ game' = [game EXCEPT !.pc = AfterFirst(game, "handle_game_over_input"),
                            !.restart_events = @ \/ pressed]
    /\ UNCHANGED <<board, calls, lastPos, lastPlayer, lastRet, prevBoard,
                   repeated, probe, search, ai, tasks>>

\* handle_restart_state: `finishes` tells whether time.delta() takes the
\* 100 ms restart timer to its end in this frame
HandleRestartState(finishes) ==
    /\ game.pc \in {"handle_restart_state", "late_handle_restart_state"}
    /\ game' = [game EXCEPT !.pc = AfterFirst(game, "handle_restart_state"),
                            !.next_state = IF finishes THEN "Playing" ELSE @]
    /\ UNCHANGED <<board, calls, lastPos, lastPlayer, lastRet, prevBoard,
                   repeated, probe, search, ai, tasks>>

\* handle_difficulty_selection: a tier button is pressed, or none (None)
HandleDifficultySelection(choice) ==
    /\ game.pc \in {"handle_difficulty_selection", "late_handle_difficulty_selection"}
    /\ game' = [game EXCEPT
           !.pc = AfterFirst(game, "handle_difficulty_selection"),
           !.selected_difficulty = IF choice = None THEN @ ELSE choice,
           !.next_state = IF choice = None THEN @ ELSE "Playing"]
    /\ UNCHANGED <<board, calls, lastPos, lastPlayer, lastRet, prevBoard,
                   repeated, probe, search, ai, tasks>>

\* restart_game leaving current_player as the last game left it
restart_game_keeps_turn(g) ==
    IF g.restart_events
    THEN [g EXCEPT !.restart_events = FALSE, !.has_board = FALSE,
                   !.next_state = "Restarting"]
    ELSE g

\* restart_game, for a RestartGameEvent: the Board and AiPlayer entities are
\* marked and cleanup_marked_entities despawns them in the same frame
restart_game(g) ==
    IF g.restart_events
    THEN [g EXCEPT !.restart_events = FALSE, !.has_board = FALSE,
                   !.current_player = Black, !.next_state = "Restarting"]
    ELSE g

\* handle_back_to_difficulty_event, for a BackToDifficultyEvent
handle_back_to_difficulty_event(g) ==
    IF g.back_events
    THEN [g EXCEPT !.back_events = FALSE, !.has_board = FALSE,
                   !.current_player = Black,
                   !.next_state = "DifficultySelection"]
    ELSE g

\* the systems of GameSystems::Common that act on the game.  In the Playing
\* state they run after the buttons; in the other states they are not
\* ordered with the system of the state and run before or after it.
Common ==
    /\ game.pc \in {"common", "early_common"}
    /\ game' = [handle_back_to_difficulty_event(restart_game(game)) EXCEPT
           !.pc = IF game.pc = "common" THEN "transition"
                  ELSE "late_" \o FirstSystem(game.state)]
    /\ UNCHANGED <<board, calls, lastPos, lastPlayer, lastRet, prevBoard,
                   repeated, probe, search, ai, tasks>>

\* setup_game with the board of the last game kept
setup_game_keeps_board(b) == b

\* `commands.spawn(Board::new())` of setup_game
setup_game(b) == BoardNew

\* the next frame begins: the StateTransition schedule applies NextState
\* and OnEnter(Playing) runs setup_game.  The move events of a frame are
\* dropped after the frame that follows it, in which their readers do not
\* run when the state has changed.  `common_first` tells whether the common
\* systems run before the system of the state in this frame.
Transition(common_first) ==
    /\ game.pc = "transition"
    /\ LET state == IF game.next_state = None THEN game.state
                    ELSE game.next_state
           entered == game.next_state # None
           pc == IF common_first /\ state # "Playing" THEN "early_common"
                 ELSE FirstSystem(state)
       IN  IF entered /\ state = "Playing"
           THEN /\ board' = setup_game(board)
                /\ prevBoard' = setup_game(board)
                /\ search' = NoSearch
                /\ ai' = [NoAi EXCEPT !.difficulty = game.selected_difficulty,
                                      !.color = White]
                /\ game' = [NoGame EXCEPT
                       !.pc = pc, !.state = state, !.has_board = TRUE,
                       !.restarted = TRUE,
                       !.current_player = game.current_player,
                       !.selected_difficulty = game.selected_difficulty,
                       !.restart_events = game.restart_events,
                       !.back_events = game.back_events]
           ELSE /\ game' = [game EXCEPT
                       !.pc = pc, !.state = state, !.next_state = None,
                       !.press = "none", !.over_seen = FALSE,
                       !.player_events = IF state = "Playing" THEN @ ELSE <<>>,
                       !.ai_events = IF state = "Playing" THEN @ ELSE <<>>]
                /\ UNCHANGED <<board, prevBoard, search, ai>>
    /\ UNCHANGED <<calls, lastPos, lastPlayer, lastRet, repeated, probe, tasks>>

\* the clock reaches 90% of the limit before an iteration deeper than
\* MaxGameDepth starts
GameClockCutsAt(now) ==
    (search.depth > MaxGameDepth /\ search.depth <= search.max_depth)
        => ReachedNinetyPercent(now, search.time_limit)

\* the gameplay chain of a frame of the Playing state
NextPlay ==
    \/ \E click \in ClickCells \cup {NoClick} : HandleInput(click)
    \/ HandlePlayerMove
    \/ HandleAiMove
    \/ \E finishes \in BOOLEAN : AiSystem(finishes)
    \/ /\ game.pc = "get_ai_move"
       /\ \E now \in AiClock(search.time_limit) :
              GameClockCutsAt(now) /\ LoopHead(now)
    \/ game.pc = "get_ai_move" /\ RunDepth
    \/ /\ game.pc = "get_ai_move"
       /\ \E now \in AiClock(search.time_limit) : KeepOrBreak(now)
    \/ /\ game.pc = "get_ai_move"
       /\ search.pc = "return"
       /\ \E draw \in RandomDraws(get_search_params(ai.difficulty).mistake_probability) :
          \E random_index \in RandomIndices(get_valid_moves_list(board, ai.player)) :
              AiSystemReturn(draw, random_index)
    \/ CheckGameOver

NextGame ==
    \/ NextPlay
    \/ \E press \in Presses : HandleButtons(press)
    \/ \E pressed \in BOOLEAN : HandleGameOverInput(pressed)
    \/ \E finishes \in BOOLEAN : HandleRestartState(finishes)
    \/ \E choice \in GameDifficulties \cup {None} : HandleDifficultySelection(choice)
    \/ Common
    \/ \E common_first \in BOOLEAN : Transition(common_first)

SpecGame == InitGame /\ [][NextGame]_vars

----------------------------------------------------------------------------
(* main.rs: a game followed over its last moves, to its end *)

\* the first 58 moves of a game of 60 from Board::new() in which no turn is
\* skipped: cells 14 and 7 are left, for Black and then for White
EndgameLine ==
    <<34, 26, 20, 44, 18, 12, 45, 17, 16, 8, 29, 24, 4, 19, 33, 37, 10, 11, 2,
      46, 38, 40, 25, 9, 1, 39, 54, 3, 41, 0, 52, 21, 22, 43, 30, 48, 13, 55,
      49, 32, 42, 57, 56, 59, 50, 47, 51, 61, 53, 5, 31, 60, 62, 58, 6, 23,
      15, 63>>

\* the boards of that game after 15, 30 and 45 moves
EndgameAfter15 == Played(BoardNew, SubSeq(EndgameLine, 1, 15), 15, Black)
EndgameAfter30 == Played(EndgameAfter15, SubSeq(EndgameLine, 16, 30), 15, White)
EndgameAfter45 == Played(EndgameAfter30, SubSeq(EndgameLine, 31, 45), 15, Black)

\* the board of that game after these moves, Black to move
EndgameBoard == Played(EndgameAfter45, SubSeq(EndgameLine, 46, 58), 13, White)

\* a frame of that game in state Playing, the human to move
InitEndgame ==
    /\ board = EndgameBoard
    /\ calls = 0
    /\ lastPos = 0
    /\ lastPlayer = Black
    /\ lastRet = FALSE
    /\ prevBoard = board
    /\ repeated = FALSE
    /\ probe = NoProbe
    /\ search = NoSearch
    /\ \E difficulty \in GameDifficulties :
           /\ ai = [NoAi EXCEPT !.difficulty = difficulty, !.color = White]
           /\ game = [NoGame EXCEPT !.pc = "handle_input", !.state = "Playing",
                                    !.has_board = TRUE,
                                    !.selected_difficulty = difficulty,
                                    !.current_player = Black]
    /\ tasks = NoTasks

\* the frames of that game while nobody presses a button or a key: the
\* gameplay chain, the UI systems, the Common systems and the state
\* transition; in state GameOver, handle_game_over_input without a press
NextEndgame ==
    \/ NextPlay
    \/ HandleButtons("none")
    \/ HandleGameOverInput(FALSE)
    \/ Common
    \/ \E common_first \in BOOLEAN : Transition(common_first)

\* the human, when it is their turn, presses a cell where they can move
HumanPlays ==
    \E click \in ClickCells :
        /\ ai.color # game.current_player
        /\ is_valid_move(board, click, game.current_player)
        /\ HandleInput(click)

\* the thinking timer of ai_system runs out in this frame
TimerFinishes == AiSystem(TRUE)

\* the search reads the clock below 90% of time_limit before a depth
SearchStartsInTime ==
    /\ game.pc = "get_ai_move"
    /\ \E now \in AiClock(search.time_limit) :
           /\ ~ReachedNinetyPercent(now, search.time_limit)
           /\ GameClockCutsAt(now)
           /\ LoopHead(now)

\* the search reads the clock below time_limit after a depth
SearchEndsInTime ==
    /\ game.pc = "get_ai_move"
    /\ \E now \in AiClock(search.time_limit) :
           now < search.time_limit /\ KeepOrBreak(now)

\* a step of a frame other than the call of find_best_move
FrameStep == search.pc # "search" /\ NextEndgame

\* the call of find_best_move in the search returns
FindBestMoveReturns == []<>(search.pc # "search")

\* the app runs frame after frame (App::run) and find_best_move returns, and
\* the side to move plays in the end: the human presses a legal cell in some
\* frame, the timer, which every frame of the AI's turn ticks by
\* time.delta(), finishes in some frame, and some search of the AI has a
\* depth back before its time limit
FairEndgame ==
    /\ WF_vars(FrameStep)
    /\ FindBestMoveReturns
    /\ SF_vars(HumanPlays)
    /\ SF_vars(TimerFinishes)
    /\ SF_vars(SearchStartsInTime)
    /\ SF_vars(SearchEndsInTime)

SpecEndgame == InitEndgame /\ [][NextEndgame]_vars /\ FairEndgame

----------------------------------------------------------------------------
(* The rules of the game, stated apart from the scanning loops of rules.rs *)

\* the eight directions as (row step, column step)
Dirs8 == ((-1..1) \X (-1..1)) \ {<<0, 0>>}

\* the i-th cell from pos in direction d, as (row, col); it may lie off the board
StepRow(pos, d, i) == (pos \div 8) + i * d[1]
StepCol(pos, d, i) == (pos % 8) + i * d[2]
Inside(row, col) == row \in 0..7 /\ col \in 0..7
CellAt(pos, d, i) == StepRow(pos, d, i) * 8 + StepCol(pos, d, i)

\* In direction d from pos lie k discs of the opponent of p and then a disc
\* of p, all on the board.
Outflanks(b, pos, p, d, k) ==
    /\ Inside(StepRow(pos, d, k + 1), StepCol(pos, d, k + 1))
    /\ CellAt(pos, d, k + 1) \in own_of(b, p)
    /\ \A i \in 1..k : CellAt(pos, d, i) \in opp_of(b, p)

\* the directions from pos whose first cell holds a disc of the opponent of p
TowardsOpponent(b, pos, p) ==
    {d \in Dirs8 : /\ Inside(StepRow(pos, d, 1), StepCol(pos, d, 1))
                    /\ CellAt(pos, d, 1) \in opp_of(b, p)}

\* the discs a disc of p placed on pos would turn over
FlipSet(b, pos, p) ==
    UNION {{CellAt(pos, x[1], i) : i \in 1..x[2]} :
           x \in {y \in TowardsOpponent(b, pos, p) \X (1..6) :
                      Outflanks(b, pos, p, y[1], y[2])}}

Occupied(b, pos) == pos \in b.black \/ pos \in b.white

LegalMove(b, pos, p) ==
    /\ pos \in Positions
    /\ ~Occupied(b, pos)
    /\ \E d \in TowardsOpponent(b, pos, p) :
           \E k \in 1..6 : Outflanks(b, pos, p, d, k)

NoLegalMove(b, p) == \A pos \in Positions : ~LegalMove(b, pos, p)

TotalDiscs(b) == count_pieces(b, Black) + count_pieces(b, White)

\* the board of this state has not been judged in the state before: it is a
\* start board, or the last call changed it
NewBoard == calls = 0 \/ board # prevBoard

\* the cells the last call turned from the opponent's colour to the mover's
FlippedCells == own_of(board, lastPlayer) \cap opp_of(prevBoard, lastPlayer)

----------------------------------------------------------------------------
(* Claims *)

\* C1: in every board reachable from Board::new() by make_move calls (legal
\* or illegal, either colour, any position) no cell is occupied by both
\* colours: black & white == 0.
C1_NoCellBothColours == board.black \cap board.white = {}

\* three successful moves have been made from the start position
C1_Witness ==
    /\ calls = 3
    /\ lastRet
    /\ TotalDiscs(board) = 7

\* moves_mask holds exactly the legal moves of p on b: a listed cell is empty
\* and flips at least one disc, an unlisted empty cell flips none
ListsExactlyLegalMoves(moves_mask, b, p) ==
    \A pos \in Positions :
        IF pos \in moves_mask
            THEN /\ LegalMove(b, pos, p)
                 /\ is_empty(b, pos)
                 /\ get_flipped_discs(b, pos, p) # {}
            ELSE /\ ~LegalMove(b, pos, p)
                 /\ is_empty(b, pos) => get_flipped_discs(b, pos, p) = {}

C3_LegalMoveChangesExactlyFlipSet ==
    (calls > 0 /\ LegalMove(prevBoard, lastPos, lastPlayer)) =>
        /\ lastRet
        /\ \A q \in Positions :
               get_piece(board, q) =
                   IF q = lastPos \/ q \in FlipSet(prevBoard, lastPos, lastPlayer)
                       THEN lastPlayer
                       ELSE get_piece(prevBoard, q)
        /\ \A q \in FlipSet(prevBoard, lastPos, lastPlayer) :
               get_piece(prevBoard, q) = opposite(lastPlayer)

\* a legal move has turned over at least two discs
C3_Witness ==
    /\ calls > 0
    /\ lastRet
    /\ Cardinality(FlipSet(prevBoard, lastPos, lastPlayer)) >= 2
    /\ board # prevBoard

\* C4: make_move(pos, p) with pos >= 64, pos occupied, or pos empty but
\* flipping nothing returns false and leaves the board unchanged; a second
\* call with the same arguments returns false again and the board is still
\* the board before the first call.
C4_IllegalMoveRejectedTwice ==
    [][ /\ ~LegalMove(board, lastPos', lastPlayer')
            => (~lastRet' /\ board' = board)
        /\ repeated' => (~lastRet' /\ board' = prevBoard /\ board' = board)
      ]_vars

\* an empty cell that flips nothing has been tried twice in a row
C4_Witness ==
    /\ repeated
    /\ ~lastRet
    /\ lastPos < 64
    /\ ~Occupied(board, lastPos)
    /\ board = prevBoard

\* C5 as claimed: after a successful make_move the total disc count has
\* increased by 1 + (number of cells flipped).
C5_TotalGrowsByOnePlusFlips ==
    (calls > 0 /\ lastRet) =>
        TotalDiscs(board) = TotalDiscs(prevBoard) + 1 + Cardinality(FlippedCells)

\* C5 as amended: after a successful make_move the total disc count has
\* increased by exactly 1, and the mover's own count by exactly
\* 1 + (number of cells flipped).
C5_TotalGrowsByOne ==
    (calls > 0 /\ lastRet) =>
        /\ TotalDiscs(board) = TotalDiscs(prevBoard) + 1
        /\ count_pieces(board, lastPlayer) =
               count_pieces(prevBoard, lastPlayer) + 1 + Cardinality(FlippedCells)

\* a successful move that flipped two cells
C5_Witness ==
    /\ calls > 0
    /\ lastRet
    /\ Cardinality(FlippedCells) = 2
    /\ TotalDiscs(board) = TotalDiscs(prevBoard) + 1

\* over iff both colours are stuck; not over when exactly one is
OverIffBothStuck(over, black_stuck, white_stuck) ==
    /\ over <=> (black_stuck /\ white_stuck)
    /\ (black_stuck # white_stuck) => ~over

\* C6: is_game_over() is true iff get_valid_moves(Black) == 0 and
\* get_valid_moves(White) == 0, that is iff neither colour has a legal move;
\* a board on which exactly one colour has no legal move is not game over,
\* full or not.
C6_GameOverIffNoMoves ==
    NewBoard =>
        /\ OverIffBothStuck(is_game_over(board),
                            get_valid_moves(board, Black) = {},
                            get_valid_moves(board, White) = {})
        /\ OverIffBothStuck(is_game_over(board),
                            NoLegalMove(board, Black),
                            NoLegalMove(board, White))

\* only White is without a move, on a board that is not full
C6_Witness ==
    /\ calls = 0
    /\ NoLegalMove(board, White)
    /\ ~NoLegalMove(board, Black)
    /\ get_empty_squares(board) # {}
    /\ ~is_game_over(board)

\* C7 as claimed: on Board::new() Black has exactly 4 legal moves, the cells
\* (2,3), (3,2), (4,5) and (5,4), positions 19, 26, 37 and 44.
C7_StartMovesAsClaimed ==
    calls = 0 =>
        /\ get_valid_moves_list(board, Black) = <<19, 26, 37, 44>>
        /\ {position_to_coords(m) : m \in get_valid_moves(board, Black)}
               = {<<2, 3>>, <<3, 2>>, <<4, 5>>, <<5, 4>>}

\* C7 as amended: on Board::new() Black has exactly 4 legal moves, the cells
\* (2,4), (3,5), (4,2) and (5,3), positions 20, 29, 34 and 43.
C7_StartMoves ==
    calls = 0 =>
        /\ Len(get_valid_moves_list(board, Black)) = 4
        /\ get_valid_moves_list(board, Black) = <<20, 29, 34, 43>>
        /\ {position_to_coords(m) : m \in get_valid_moves(board, Black)}
               = {<<2, 4>>, <<3, 5>>, <<4, 2>>, <<5, 3>>}

\* the start board, on which cell (2,4) is a move of Black
C7_Witness ==
    /\ calls = 0
    /\ board = BoardNew
    /\ is_valid_move(board, coords_to_position(2, 4), Black)

\* C8: each of Black's legal moves on the start board flips exactly 1 disc
\* and leaves 4 Black discs and 1 White disc.
C8_FirstBlackMoveFlipsOne ==
    (calls = 1 /\ lastPlayer = Black
               /\ lastPos \in get_valid_moves(prevBoard, Black)) =>
        /\ lastRet
        /\ Cardinality(FlippedCells) = 1
        /\ count_pieces(board, Black) = 4
        /\ count_pieces(board, White) = 1

\* Black has opened on position 43
C8_Witness ==
    /\ calls = 1
    /\ prevBoard = BoardNew
    /\ lastPlayer = Black
    /\ lastPos = 43
    /\ lastRet

\* C9: Board::new() has exactly 2 Black and 2 White discs on the four centre
\* cells (3,3), (3,4), (4,3), (4,4), discs of one colour diagonal to each
\* other, and the other 60 cells empty.
C9_StartPosition ==
    calls = 0 =>
        /\ count_pieces(board, Black) = 2
        /\ count_pieces(board, White) = 2
        /\ board.black \cup board.white
               = {coords_to_position(3, 3), coords_to_position(3, 4),
                  coords_to_position(4, 3), coords_to_position(4, 4)}
        /\ get_piece(board, coords_to_position(3, 3))
               = get_piece(board, coords_to_position(4, 4))
        /\ get_piece(board, coords_to_position(3, 4))
               = get_piece(board, coords_to_position(4, 3))
        /\ Cardinality(get_empty_squares(board)) = 60

\* the board as constructed: Black on (3,3), White on (3,4)
C9_Witness ==
    /\ calls = 0
    /\ get_piece(board, coords_to_position(3, 3)) = Black
    /\ get_piece(board, coords_to_position(3, 4)) = White

\* the winner is the colour with more discs of a game that is over, else None
WinnerAgrees(winner, over, black_count, white_count) ==
    IF over
        THEN /\ black_count > white_count => winner = Black
             /\ white_count > black_count => winner = White
             /\ black_count = white_count => winner = None
        ELSE winner = None

\* C10: get_winner() returns the colour with strictly more discs, or None on
\* equal counts, when neither colour has a legal move; it returns None
\* whatever the counts when the game is not over.
C10_WinnerOnlyWhenOver ==
    NewBoard =>
        WinnerAgrees(get_winner(board),
                     NoLegalMove(board, Black) /\ NoLegalMove(board, White),
                     count_pieces(board, Black), count_pieces(board, White))

\* a game that is not over, with more Black discs than White: no winner
C10_Witness ==
    /\ calls = 0
    /\ ~is_game_over(board)
    /\ count_pieces(board, Black) > count_pieces(board, White)
    /\ get_winner(board) = None

----------------------------------------------------------------------------
(* Claims about ai/minimax.rs *)

\* the board after p places a disc on pos and the outflanked discs turn over
AfterMove(b, pos, p) ==
    LET flips == FlipSet(b, pos, p) IN
    IF p = Black
    THEN [black |-> b.black \cup {pos} \cup flips, white |-> b.white \ flips]
    ELSE [white |-> b.white \cup {pos} \cup flips, black |-> b.black \ flips]

\* the score find_best_move(b, depth, p) gives the move pos: the minimax value
\* of the board after it, depth - 1 plies deep, a minimizing ply first, with
\* the full window
MoveScore(b, pos, depth, p) ==
    minimax(AfterMove(b, pos, p), depth - 1, I32_MIN, I32_MAX, FALSE, p)

\* result is as find_best_move(b, depth, p) should be: no move exactly if p
\* has no legal move, else a legal move, its score, and no legal move scoring
\* more
BestMoveIsAMaximum(result, b, depth, p) ==
    IF NoLegalMove(b, p) THEN result.best_move = NoMove
    ELSE /\ result.best_move # NoMove
         /\ LegalMove(b, result.best_move[1], p)
         /\ result.evaluation = MoveScore(b, result.best_move[1], depth, p)
         /\ \A pos \in Positions :
                LegalMove(b, pos, p) =>
                    MoveScore(b, pos, depth, p) <= result.evaluation

\* C11: find_best_move(board, depth >= 1, player) returns best_move = None
\* exactly if player has no legal move; otherwise best_move is a legal move,
\* evaluation is the minimax score (depth - 1, minimizing ply, full window) of
\* the board after it, and no other legal move has a strictly higher score.
C11_BestMoveMaximisesScore ==
    probe.fn = "find_best_move" =>
        BestMoveIsAMaximum(probe.result, board, probe.depth, probe.player)

\* a search two plies deep or more that chose among moves of different scores
C11_Witness ==
    /\ probe.fn = "find_best_move"
    /\ probe.depth >= 2
    /\ probe.result.best_move # NoMove
    /\ \E pos \in Positions :
           /\ LegalMove(board, pos, probe.player)
           /\ MoveScore(board, pos, probe.depth, probe.player)
                  < probe.result.evaluation

\* the legal moves of p on b whose score is `evaluation`
MovesScoring(b, depth, p, evaluation) ==
    {pos \in Positions :
        LegalMove(b, pos, p) /\ MoveScore(b, pos, depth, p) = evaluation}

\* C12 as claimed: when several legal moves share the maximum score,
\* find_best_move returns the first of them in enumeration order, the one
\* with the lowest position.
C12_FirstMaximumWins ==
    (probe.fn = "find_best_move" /\ probe.result.best_move # NoMove) =>
        \A pos \in MovesScoring(board, probe.depth, probe.player,
                                probe.result.evaluation) :
            probe.result.best_move[1] <= pos

\* C12: when several legal moves share the maximum score, find_best_move
\* returns the last of them in enumeration order, the one with the highest
\* position.
C12_LastMaximumWins ==
    (probe.fn = "find_best_move" /\ probe.result.best_move # NoMove) =>
        \A pos \in MovesScoring(board, probe.depth, probe.player,
                                probe.result.evaluation) :
            probe.result.best_move[1] >= pos

\* a search in which two moves or more share the maximum score, on a board
\* that is not the symmetric start board
C12_Witness ==
    /\ probe.fn = "find_best_move"
    /\ probe.result.best_move # NoMove
    /\ board # BoardNew
    /\ Cardinality(MovesScoring(board, probe.depth, probe.player,
                                probe.result.evaluation)) >= 2

\* the greatest and the least element of a non-empty finite set of integers
Greatest(S) == CHOOSE x \in S : \A y \in S : y <= x
Least(S) == CHOOSE x \in S : \A y \in S : x <= y

RECURSIVE Exhaustive(_, _, _, _)
\* minimax without alpha and beta: every legal move of every node down to
\* depth is searched
Exhaustive(b, depth, maximizing, p) ==
    IF depth = 0 \/ (NoLegalMove(b, Black) /\ NoLegalMove(b, White))
    THEN evaluate_board(b, p)
    ELSE LET mover == IF maximizing THEN p ELSE opposite(p)
             values == {Exhaustive(AfterMove(b, pos, mover), depth - 1,
                                   ~maximizing, p) :
                        pos \in {q \in Positions : LegalMove(b, q, mover)}}
         IN  IF NoLegalMove(b, mover)
             THEN Exhaustive(b, depth - 1, ~maximizing, p)
             ELSE IF maximizing THEN Greatest(values) ELSE Least(values)

\* the score the exhaustive search gives each legal move of p on b
ExhaustiveScores(b, depth, p) ==
    {<<pos, Exhaustive(AfterMove(b, pos, p), depth - 1, FALSE, p)>> :
        pos \in {q \in Positions : LegalMove(b, q, p)}}

\* result names the move the exhaustive scores select (the last of the moves
\* of greatest score) and that score
ChoiceOfExhaustive(result, scores) ==
    IF scores = {} THEN result.best_move = NoMove
    ELSE LET top == Greatest({x[2] : x \in scores}) IN
         /\ result.evaluation = top
         /\ result.best_move =
                Some(Greatest({x[1] : x \in {y \in scores : y[2] = top}}))

\* C13: the move chosen by find_best_move, whose minimax prunes with alpha
\* and beta from the window (i32::MIN, i32::MAX), is the move an exhaustive
\* minimax without pruning chooses.
C13_PruningKeepsTheChoice ==
    probe.fn = "find_best_move" =>
        ChoiceOfExhaustive(probe.result,
                           ExhaustiveScores(board, probe.depth, probe.player))

RECURSIVE Prunes(_, _, _, _, _, _)
RECURSIVE PrunesFrom(_, _, _, _, _, _, _, _)

\* one turn of the loop of minimax at moves[i], once the move's eval is known:
\* the search below it prunes, or the loop breaks with moves left, or a later
\* turn prunes
PrunesAt(b, moves, i, depth, alpha, beta, maximizing, p, child, eval) ==
    LET new_alpha == IF maximizing /\ eval > alpha THEN eval ELSE alpha
        new_beta == IF ~maximizing /\ eval < beta THEN eval ELSE beta
    IN  \/ Prunes(child, depth - 1, alpha, beta, ~maximizing, p)
        \/ IF new_beta <= new_alpha THEN i < Len(moves)
           ELSE PrunesFrom(b, moves, i + 1, depth, new_alpha, new_beta,
                           maximizing, p)

PrunesFrom(b, moves, i, depth, alpha, beta, maximizing, p) ==
    /\ i <= Len(moves)
    /\ LET mover == IF maximizing THEN p ELSE opposite(p) IN
       PrunesAt(b, moves, i, depth, alpha, beta, maximizing, p,
                make_move(b, moves[i], mover).board,
                minimax(make_move(b, moves[i], mover).board, depth - 1,
                        alpha, beta, ~maximizing, p))

\* minimax(b, depth, alpha, beta, maximizing, p) leaves a legal move of some
\* node unsearched
Prunes(b, depth, alpha, beta, maximizing, p) ==
    /\ depth > 0
    /\ ~is_game_over(b)
    /\ LET moves == get_valid_moves_list(
                        b, IF maximizing THEN p ELSE opposite(p))
       IN  IF moves = <<>>
           THEN Prunes(b, depth - 1, alpha, beta, ~maximizing, p)
           ELSE PrunesFrom(b, moves, 1, depth, alpha, beta, maximizing, p)

\* a search in which the minimax below some legal move left moves unsearched
C13_Witness ==
    /\ probe.fn = "find_best_move"
    /\ probe.result.best_move # NoMove
    /\ \E pos \in Positions :
           /\ LegalMove(board, pos, probe.player)
           /\ Prunes(AfterMove(board, pos, probe.player), probe.depth - 1,
                     I32_MIN, I32_MAX, FALSE, probe.player)

\* neither colour has a legal move on b
GameOver(b) == NoLegalMove(b, Black) /\ NoLegalMove(b, White)

\* C14: minimax returns evaluate_board(board, player), the score for the
\* player the search optimizes and not for the side to move, whenever
\* depth == 0 or the game is over, in maximizing and in minimizing plies and
\* whatever depth remains.
C14_LeafScoredForRootPlayer ==
    (probe.fn = "minimax" /\ (probe.depth = 0 \/ GameOver(board))) =>
        probe.eval = evaluate_board(board, probe.player)

\* a minimizing ply on a finished game with depth left, on a board the two
\* colours score differently
C14_Witness ==
    /\ probe.fn = "minimax"
    /\ probe.depth > 0
    /\ ~probe.maximizing
    /\ GameOver(board)
    /\ probe.eval = evaluate_board(board, probe.player)
    /\ probe.eval # evaluate_board(board, opposite(probe.player))

\* the side to move at a minimax node
SideToMove(maximizing, p) == IF maximizing THEN p ELSE opposite(p)

\* the last minimax call was made on a board where the game is not over,
\* with depth left, and the side to move has no legal move
PassNode ==
    /\ probe.fn = "minimax"
    /\ probe.depth > 0
    /\ ~GameOver(board)
    /\ NoLegalMove(board, SideToMove(probe.maximizing, probe.player))

\* C15: at a non-terminal minimax node where the side to move has no legal
\* move, minimax returns the value of minimax on the same board with
\* depth - 1, the same alpha and beta, and maximizing flipped.
C15_PassSkipsThePly ==
    PassNode =>
        probe.eval = minimax(board, probe.depth - 1, probe.alpha, probe.beta,
                             ~probe.maximizing, probe.player)

\* a forced pass with two plies left, after which the other side's move
\* changes the score of the board
C15_Witness ==
    /\ PassNode
    /\ probe.depth >= 2
    /\ probe.eval # evaluate_board(board, probe.player)

----------------------------------------------------------------------------
(* Claims about find_best_move_with_time_limit *)

\* the depths whose iteration was accepted so far
AcceptedDepths == {search.accepted[k] : k \in 1..Len(search.accepted)}

\* the result find_best_move returned for the deepest accepted depth, or the
\* default result when no iteration was accepted
DeepestAccepted ==
    IF search.accepted = <<>> THEN SearchResultDefault
    ELSE search.results[search.accepted[Len(search.accepted)]]

\* the call has returned; its value is search.best_result
Returned == search.pc = "return"

\* the value kept, and returned, is the whole find_best_move result of the
\* deepest accepted depth, or the default result
KeepsDeepestAccepted ==
    /\ search.best_result = DeepestAccepted
    /\ (Returned /\ search.accepted # <<>>) =>
           search.best_result =
               find_best_move(board, search.accepted[Len(search.accepted)],
                              search.player)

\* C16 as claimed: the iterations run at depths 1, 2, ... in order, an
\* iteration's result is discarded exactly when the elapsed time at its
\* completion has exceeded time_limit, and the value returned is the whole
\* result of the deepest accepted depth or the default result.
C16_DiscardedWhenLimitExceeded ==
    /\ \A i \in 1..Len(search.started) : search.started[i] = i
    /\ \A i \in 1..Len(search.post) :
           i \notin AcceptedDepths <=> search.post[i] > search.time_limit
    /\ KeepsDeepestAccepted

\* C16: the iterations run find_best_move at depths 1, 2, ... in order, each
\* all-or-nothing: an iteration's result is discarded (and the previously
\* accepted one returned) exactly when the elapsed time at its completion has
\* reached or exceeded time_limit, otherwise it replaces the kept result; the
\* value returned is the whole find_best_move result of the deepest accepted
\* depth, or the default result.
C16_IterationsAllOrNothing ==
    /\ \A i \in 1..Len(search.started) : search.started[i] = i
    /\ \A i \in 1..Len(search.post) :
           i \notin AcceptedDepths <=> search.post[i] >= search.time_limit
    /\ KeepsDeepestAccepted

\* the depth-2 iteration finished exactly at time_limit and was dropped: the
\* depth-1 result, a different one, is returned
C16_Witness ==
    /\ Returned
    /\ search.started = <<1, 2>>
    /\ search.accepted = <<1>>
    /\ search.post[2] = search.time_limit
    /\ search.best_result = search.results[1]
    /\ search.results[2] # search.results[1]

\* the reading e of the elapsed time has reached 90% of time_limit
NinetyPercentGone(e) == 10 * e >= 9 * search.time_limit

NoCheckFired ==
    /\ \A i \in 1..Len(search.pre) : ~NinetyPercentGone(search.pre[i])
    /\ \A i \in 1..Len(search.post) : search.post[i] < search.time_limit

\* C18 as claimed: when no time check fires,
\* find_best_move_with_time_limit returns depth_reached == max_depth, for
\* every board, every colour and every max_depth >= 1.
C18_ReachesMaxDepth ==
    (Returned /\ NoCheckFired /\ search.max_depth >= 1) =>
        search.best_result.depth_reached = search.max_depth

\* C18: when no time check fires and max_depth >= 1,
\* find_best_move_with_time_limit returns depth_reached == max_depth on every
\* board where the colour has a legal move, and the default result, whose
\* depth_reached is 0, where it has none.
C18_ReachesMaxDepthWithMoves ==
    (Returned /\ NoCheckFired /\ search.max_depth >= 1) =>
        IF NoLegalMove(board, search.player)
        THEN search.best_result = SearchResultDefault
        ELSE search.best_result.depth_reached = search.max_depth

\* a search of two depths or more that no time check stopped, for a colour
\* that has a legal move
C18_Witness ==
    /\ Returned
    /\ NoCheckFired
    /\ search.max_depth >= 2
    /\ ~NoLegalMove(board, search.player)
    /\ search.best_result.depth_reached = search.max_depth

\* the time ran out before the depth-1 iteration was accepted: the first
\* check before it found 90% of time_limit gone, or depth 1 finished at or
\* after time_limit
OutOfTimeAtDepthOne ==
    /\ Len(search.pre) >= 1
    /\ \/ NinetyPercentGone(search.pre[1])
       \/ (Len(search.post) >= 1 /\ search.post[1] >= search.time_limit)

\* C19: if the time runs out before the depth-1 iteration is accepted,
\* find_best_move_with_time_limit returns the default SearchResult
\* (best_move = None, depth_reached = 0, completed = false), even when the
\* player has legal moves.
C19_DefaultWhenOutOfTime ==
    (Returned /\ OutOfTimeAtDepthOne) =>
        /\ search.best_result.best_move = NoMove
        /\ search.best_result.depth_reached = 0
        /\ search.best_result.completed = FALSE
        /\ search.best_result = SearchResultDefault

\* depth 1 found a move but finished at time_limit: nothing is returned
C19_Witness ==
    /\ Returned
    /\ search.started = <<1>>
    /\ search.post = <<search.time_limit>>
    /\ search.results[1].best_move # NoMove
    /\ ~NoLegalMove(board, search.player)
    /\ search.best_result = SearchResultDefault

\* every depth 1..max_depth was searched and accepted
AllDepthsAccepted == AcceptedDepths = 1..search.max_depth

\* C20: the completed field of the result find_best_move_with_time_limit
\* returns is true if and only if the search was not cut short by the time
\* budget, that is every depth 1..max_depth was searched and accepted.  Stated
\* for the calls with max_depth >= 1 whose colour has a legal move.
C20_CompletedIffAllDepthsAccepted ==
    (Returned /\ search.max_depth >= 1 /\ ~NoLegalMove(board, search.player)) =>
        (search.best_result.completed <=> AllDepthsAccepted)

----------------------------------------------------------------------------
(* Claims about the coordinate conversions and the move queries *)

\* position -> (row, col) -> position
ThereAndBack(pos) ==
    coords_to_position(position_to_coords(pos)[1], position_to_coords(pos)[2])

\* C30: the coordinate conversions are mutually inverse on the board:
\* coords_to_position(position_to_coords(pos)) == pos for every pos in 0..63,
\* and position_to_coords(coords_to_position(row, col)) == (row, col) for
\* every row and col in 0..7.
C30_ConversionsMutuallyInverse ==
    /\ lastPos \in 0..63 => ThereAndBack(lastPos) = lastPos
    /\ \A pos \in 0..63 : ThereAndBack(pos) = pos
    /\ \A row \in 0..7 : \A col \in 0..7 :
           position_to_coords(coords_to_position(row, col)) = <<row, col>>

\* a move was tried on the cell of row 2, column 4, which is position 20
C30_Witness ==
    /\ calls > 0
    /\ lastPos = 20
    /\ position_to_coords(lastPos) = <<2, 4>>
    /\ coords_to_position(2, 4) = lastPos

\* the list holds exactly the positions of the mask, in increasing order
ListsTheMask(moves, moves_mask) ==
    /\ {moves[i] : i \in 1..Len(moves)} = moves_mask
    /\ \A i \in 1..Len(moves) : \A j \in 1..Len(moves) :
           i < j => moves[i] < moves[j]

\* the two boolean queries agree with the list
QueriesAgree(b, p, moves) ==
    /\ has_valid_moves(b, p) <=> Len(moves) > 0
    /\ \A pos \in PosInputs :
           is_valid_move(b, pos, p)
               <=> (pos < 64 /\ \E i \in 1..Len(moves) : moves[i] = pos)

\* C29: get_valid_moves_list(player) contains exactly the positions whose bit
\* is set in get_valid_moves(player), each once, in strictly increasing
\* position order; has_valid_moves(player) is true iff that list is non-empty,
\* and is_valid_move(pos, player) is true iff pos < 64 and pos is in the list.
C29_MoveQueriesAgree ==
    NewBoard =>
        \A p \in PlayerColor :
            /\ ListsTheMask(get_valid_moves_list(board, p),
                            get_valid_moves(board, p))
            /\ QueriesAgree(board, p, get_valid_moves_list(board, p))

\* a board on which Black has several moves, listed in increasing order, and
\* White has none
C29_Witness ==
    /\ NewBoard
    /\ Len(get_valid_moves_list(board, Black)) >= 2
    /\ is_valid_move(board, get_valid_moves_list(board, Black)[2], Black)
    /\ ~has_valid_moves(board, White)
    /\ get_valid_moves_list(board, White) = <<>>

----------------------------------------------------------------------------
(* Claims about ai/difficulty.rs *)

\* the tiers from the weakest to the strongest
TierOrder == <<"Beginner", "Intermediate", "Advanced", "Expert">>

\* the tier table as claimed: max_depth, time limit in milliseconds, and the
\* mistake probability as a fraction
ClaimedParams(difficulty) ==
    CASE difficulty = "Beginner" -> <<2, 100, <<3, 10>> >>
      [] difficulty = "Intermediate" -> <<4, 500, <<3, 20>> >>
      [] difficulty = "Advanced" -> <<6, 2000, <<1, 20>> >>
      [] difficulty = "Expert" -> <<12, 5000, <<0, 1>> >>

\* numerator / 2^28 is the f32 nearest to the fraction: it has at most 24
\* significant bits and lies within half a unit of the last of them
IsF32Of(numerator, fraction) ==
    LET ulp == IF numerator >= 2 ^ 24 THEN 2 ^ (Log2(numerator) - 23) ELSE 1
        diff == numerator * fraction[2] - fraction[1] * ProbUnit
    IN  /\ numerator % ulp = 0
        /\ 2 * diff <= ulp * fraction[2]
        /\ -2 * diff <= ulp * fraction[2]

\* C28: get_search_params maps the four tiers exactly to Beginner = (max_depth
\* 2, 100 ms, mistake 0.30), Intermediate = (4, 500 ms, 0.15), Advanced = (6,
\* 2 s, 0.05), Expert = (12, 5 s, 0.00); from Beginner to Expert max_depth and
\* time_limit strictly increase and mistake_probability strictly decreases.
C28_TierTable ==
    /\ \A difficulty \in AiDifficulty :
           LET params == get_search_params(difficulty)
               claimed == ClaimedParams(difficulty)
           IN  /\ params.max_depth = claimed[1]
               /\ params.time_limit = claimed[2]
               /\ IsF32Of(params.mistake_probability, claimed[3])
    /\ \A i \in 1..3 :
           LET weaker == get_search_params(TierOrder[i])
               stronger == get_search_params(TierOrder[i + 1])
           IN  /\ weaker.max_depth < stronger.max_depth
               /\ weaker.time_limit < stronger.time_limit
               /\ weaker.mistake_probability > stronger.mistake_probability
    /\ ai.pc = "search" =>
           /\ search.max_depth = ClaimedParams(ai.difficulty)[1]
           /\ search.time_limit = ClaimedParams(ai.difficulty)[2]

\* an Advanced player searching with the parameters of its tier
C28_Witness ==
    /\ ai.pc = "search"
    /\ ai.difficulty = "Advanced"
    /\ search.max_depth = 6
    /\ search.time_limit = 2000
    /\ get_search_params(ai.difficulty).mistake_probability = F32Prob(5)

\* get_ai_move has returned, and the search it ran is still in `search`
AiReturned == ai.pc = "idle" /\ ai.last_return # <<>>

\* the value of the Option<Move> is a move of the list
IsOneOf(ret, valid_moves) ==
    ret # NoMove /\ \E i \in 1..Len(valid_moves) : valid_moves[i] = ret[1]

\* what get_ai_move may return, given the draw and the result of the search
ReturnsAsClaimed(returned, mistake_probability, valid_moves, best_move) ==
    /\ returned.ret = NoMove \/ IsOneOf(returned.ret, valid_moves)
    /\ IF returned.draw < mistake_probability
       THEN IF valid_moves = <<>> THEN returned.ret = NoMove
            ELSE IsOneOf(returned.ret, valid_moves)
       ELSE returned.ret = best_move

\* C21: for every tier, board, player, timing and outcome of the random draw,
\* get_ai_move returns either None or a move that is in
\* get_valid_moves_list(player) for that board: when the draw is below
\* mistake_probability it returns some legal move or None exactly when the
\* list is empty, otherwise it returns the best_move of the timed search
\* unchanged.
C21_ReturnsNoneOrLegalMove ==
    AiReturned =>
        ReturnsAsClaimed(ai.last_return[1],
                         get_search_params(ai.difficulty).mistake_probability,
                         get_valid_moves_list(board, ai.player),
                         search.best_result.best_move)

\* a Beginner that drew below its mistake probability and returned a legal
\* move that is not the one its search had found
C21_Witness ==
    /\ AiReturned
    /\ ai.difficulty = "Beginner"
    /\ ai.last_return[1].draw < get_search_params(ai.difficulty).mistake_probability
    /\ search.best_result.best_move # NoMove
    /\ ai.last_return[1].ret # search.best_result.best_move
    /\ IsOneOf(ai.last_return[1].ret, get_valid_moves_list(board, ai.player))

\* C22: get_ai_move returns None only as the signal of a forced pass: it
\* returns None only when the player has no legal move on the given board,
\* for every tier and every timing of the search.
C22_NoneOnlyOnForcedPass ==
    (AiReturned /\ ai.last_return[1].ret = NoMove)
        => get_valid_moves_list(board, ai.player) = <<>>

\* an Expert has returned from a call that was not its first
ExpertReturnedAgain ==
    AiReturned /\ ai.difficulty = "Expert" /\ ai.last_return[1].again

\* C23 (as claimed): two runs of Expert-tier get_ai_move on the same board
\* and player always return the same move: the result does not depend on
\* anything but the board and the player.
C23_ExpertRunsAgree ==
    ExpertReturnedAgain => ai.last_return[1].ret = ai.first_return[1].ret

\* C23 (amended): an Expert never takes the random branch and returns the
\* best_move of its timed search; two runs on the same board and player
\* return the same move when their searches were cut at the same depth.
C23_ExpertRunsAgreeAtEqualDepth ==
    (AiReturned /\ ai.difficulty = "Expert") =>
        /\ ~ai.last_return[1].mistake
        /\ ai.last_return[1].ret = search.best_result.best_move
        /\ ai.last_return[1].depth_reached = ai.first_return[1].depth_reached
               => ai.last_return[1].ret = ai.first_return[1].ret

\* the second run of an Expert was cut at depth 2 as the first was, and
\* returned the same move
C23_Witness ==
    /\ ExpertReturnedAgain
    /\ ai.last_return[1].depth_reached = 2
    /\ ai.first_return[1].depth_reached = 2
    /\ ai.last_return[1].ret # NoMove
    /\ ai.last_return[1].ret = ai.first_return[1].ret

\* C26: minimax, find_best_move, find_best_move_with_time_limit and
\* get_ai_move never modify the board they are given: every candidate move is
\* applied to an independent copy, so the caller's board is bit-for-bit the
\* same after the call as before, whatever the result.  (No make_move is
\* called on the caller's board here, so prevBoard is the board handed in.)
C26_SearchLeavesTheBoard ==
    /\ board = prevBoard
    /\ \A i \in 1..Len(search.results) :
           search.results[i].best_move # NoMove
               => TryCandidate(board, search.results[i].best_move[1],
                               search.player).new_board # board

\* get_ai_move has returned a move found by two iterations of the search,
\* each of which tried every candidate, and the board is as it was
C26_Witness ==
    /\ AiReturned
    /\ Len(search.started) = 2
    /\ ai.last_return[1].ret # NoMove
    /\ ~ai.last_return[1].mistake
    /\ Len(get_valid_moves_list(board, ai.player)) >= 2
    /\ board = prevBoard

\* the tasks did not finish in the order of the move list
FinishedOutOfOrder ==
    \E k \in 1..(Len(tasks.finished) - 1) :
        tasks.finished[k] > tasks.finished[k + 1]

\* C27: the result of find_best_move (best_move and evaluation) is the same
\* for every order and interleaving in which the candidate moves' subtrees
\* are evaluated in parallel, and equals the result of evaluating them
\* sequentially in position order.
C27_ResultIndependentOfTaskOrder ==
    tasks.pc = "done" =>
        LET sequential == find_best_move(board, tasks.depth, tasks.player) IN
        /\ tasks.result.best_move = sequential.best_move
        /\ tasks.result.evaluation = sequential.evaluation
        /\ tasks.result = sequential

\* the task of the last move finished first, the move returned is that last
\* move, and the first move has the same evaluation
C27_Witness ==
    /\ tasks.pc = "done"
    /\ FinishedOutOfOrder
    /\ tasks.finished[1] = Len(tasks.moves)
    /\ tasks.result.best_move = Some(tasks.moves[Len(tasks.moves)])
    /\ tasks.evaluations[1] = <<tasks.result.evaluation>>

----------------------------------------------------------------------------
(* Claims about the gameplay systems of main.rs *)

\* C25: after a successful move by colour p (human or AI), the turn goes to
\* p.opposite() if and only if p.opposite() has at least one legal move on the
\* new board; otherwise the opponent's turn is passed without consuming a
\* move and current_player stays p.
C25_TurnGoesToOpponentIffItCanMove ==
    game.moved # None =>
        /\ game.current_player = opposite(game.moved)
               <=> ~NoLegalMove(board, opposite(game.moved))
        /\ NoLegalMove(board, opposite(game.moved))
               => game.current_player = game.moved

\* the AI (White) has moved, Black has no legal move on the new board while
\* White has one, and it is White's turn again
C25_Witness ==
    /\ game.moved = White
    /\ board # prevBoard
    /\ NoLegalMove(board, Black)
    /\ ~NoLegalMove(board, White)
    /\ game.current_player = White

\* C24: the AI search runs without blocking the control loop: between the
\* moment the AI's search is started and the moment its result is observed,
\* the input/render loop keeps ticking, and the finished result is picked up
\* on the next control-loop tick after the search completes.  Here: when
\* ai_system has the result of a search that took time, a frame has begun
\* since the search was started.
C24_FramesBeginDuringSearch ==
    (game.pc = "check_game_over" /\ game.searched /\ search.elapsed > 0)
        => game.ticked

----------------------------------------------------------------------------
(* Claims about ai/evaluation.rs *)

\* a sub-score that adds own cells and subtracts the opponent's changes
\* sign when the colours are exchanged
Antisymmetric(own_score, opp_score) == own_score = -opp_score

\* the border cells, the ones evaluate_stability counts
BorderCells == {pos \in Positions : pos \div 8 \in {0, 7} \/ pos % 8 \in {0, 7}}

\* C31 as stated: each of the five sub-scores of a board changes sign when
\* it is asked for the other colour.
C31_AllSubScoresSymmetric ==
    NewBoard =>
        /\ Antisymmetric(evaluate_corners(board, Black), evaluate_corners(board, White))
        /\ Antisymmetric(evaluate_stability(board, Black), evaluate_stability(board, White))
        /\ Antisymmetric(evaluate_mobility(board, Black), evaluate_mobility(board, White))
        /\ Antisymmetric(evaluate_positional(board, Black), evaluate_positional(board, White))
        /\ Antisymmetric(evaluate_parity(board, Black), evaluate_parity(board, White))

\* C31: the corner, mobility and positional sub-scores change sign when they
\* are asked for the other colour; the stability sub-score is 50 for each
\* border disc of the colour asked for and subtracts nothing for the
\* opponent's, and the parity sub-score is the same 10 or -10 for both
\* colours.
C31_ThreeSubScoresSymmetric ==
    NewBoard =>
        /\ Antisymmetric(evaluate_corners(board, Black), evaluate_corners(board, White))
        /\ Antisymmetric(evaluate_mobility(board, Black), evaluate_mobility(board, White))
        /\ Antisymmetric(evaluate_positional(board, Black), evaluate_positional(board, White))
        /\ \A p \in PlayerColor :
               evaluate_stability(board, p) = 50 * Cardinality(own_of(board, p) \cap BorderCells)
        /\ evaluate_parity(board, Black) = evaluate_parity(board, White)
        /\ evaluate_parity(board, Black) \in {10, -10}

\* a board after a successful move on which Black holds a corner, both
\* colours have border discs and Black has more moves than White
C31_Witness ==
    /\ calls = 1
    /\ lastRet
    /\ evaluate_corners(board, Black) > 0
    /\ evaluate_stability(board, Black) > 0
    /\ evaluate_stability(board, White) > 0
    /\ evaluate_mobility(board, Black) > 0
    /\ evaluate_positional(board, Black) # 0

----------------------------------------------------------------------------
(* Claims about the disc counts of make_move *)

\* the occupied cells of a board
OccupiedCells(b) == b.black \cup b.white

\* C39: a successful make_move(pos, p) flips f >= 1 cells, the occupied
\* cells become the old ones plus pos, which was empty, p's count grows by
\* 1 + f and the opponent's count falls by f.
C39_DiscAccounting ==
    (calls > 0 /\ lastRet) =>
        LET f == Cardinality(get_flipped_discs(prevBoard, lastPos, lastPlayer))
            opp == opposite(lastPlayer)
        IN  /\ f >= 1
            /\ f = Cardinality(FlippedCells)
            /\ lastPos \notin OccupiedCells(prevBoard)
            /\ OccupiedCells(board) = OccupiedCells(prevBoard) \cup {lastPos}
            /\ TotalDiscs(board) = TotalDiscs(prevBoard) + 1
            /\ count_pieces(board, lastPlayer) = count_pieces(prevBoard, lastPlayer) + 1 + f
            /\ count_pieces(board, opp) = count_pieces(prevBoard, opp) - f

\* a successful move that flips two discs at once
C39_Witness ==
    /\ calls > 0
    /\ lastRet
    /\ Cardinality(FlippedCells) >= 2
    /\ count_pieces(board, lastPlayer) = count_pieces(prevBoard, lastPlayer) + 3

\* C32: while the state is Playing and the game's board exists, after every
\* step of a frame either the board is game over or the colour in
\* current_player has a legal move, so the status text never takes its
\* "pass turn" branch.
C32_SideToMoveIsNeverStuck ==
    (game.state = "Playing" /\ game.has_board) =>
        /\ GameOver(board) \/ ~NoLegalMove(board, game.current_player)
        /\ update_game_status_text(board, game.current_player) # "pass_turn"

\* the UI set runs in a frame in which the opponent of the side to move has
\* no legal move and the game is not over: the turn was passed
C32_Witness ==
    /\ game.state = "Playing"
    /\ game.has_board
    /\ game.pc = "buttons"
    /\ NoLegalMove(board, opposite(game.current_player))
    /\ ~NoLegalMove(board, game.current_player)
    /\ update_game_status_text(board, game.current_player) = "game_in_progress"

\* C33: a disc placed for a PlayerMoveEvent is placed as Black and a disc
\* placed for an AiMoveEvent as White, the AI's colour: a press in a frame
\* in which current_player is the AI's colour writes no event and moves
\* nothing, and an AiMoveEvent is applied while current_player is the AI's
\* colour.
C33_HumanPlaysBlackAiPlaysWhite ==
    /\ game.state = "Playing" => ai.color = White
    /\ game.moved_by = "player" => (game.moved = Black /\ game.moved # ai.color)
    /\ game.moved_by = "ai" => (game.moved = White /\ game.moved = ai.color)
    /\ (game.pc = "handle_player_move" /\ game.current_player = ai.color)
           => game.player_events = <<>>
    /\ (game.pc = "handle_ai_move" /\ game.ai_events # <<>>)
           => game.current_player = ai.color

\* the human pressed a cell in the AI's turn, on which the cell would be a
\* legal move for the AI's colour, and handle_player_move finds no event
C33_Witness ==
    /\ game.pc = "handle_player_move"
    /\ game.click # NoClick
    /\ game.current_player = White
    /\ LegalMove(board, game.click, White)
    /\ game.player_events = <<>>
    /\ game.moves > 0

\* the frame's transition out of the Playing state is about to be applied
LeavingFrameOfPlaying == game.pc = "transition" /\ game.state = "Playing"

\* no move is applied to a board that is game over: it stays as it is until
\* setup_game replaces it
NoMoveOnceOver ==
    GameOver(board) =>
        \/ board' = board
        \/ game.pc = "transition" /\ game'.state = "Playing" /\ board' = BoardNew

\* C35 as stated: the state moves from Playing to GameOver exactly when
\* check_game_over saw board.is_game_over() in the frame; GameOver is never
\* the state while a colour has a legal move, and no move is applied to a
\* board that is game over.
C35_GameOverExactlyWhenSeen ==
    /\ [][LeavingFrameOfPlaying =>
              (game'.state = "GameOver" <=> game.over_seen)]_vars
    /\ [](game.state = "GameOver" => GameOver(board))
    /\ [][NoMoveOnceOver]_vars

\* C35: the state moves from Playing to GameOver exactly when
\* check_game_over saw board.is_game_over() in the frame and neither the
\* restart button nor the back button was pressed in it (a press takes the
\* state to Restarting or DifficultySelection instead); GameOver is entered
\* from no other state, never while a colour has a legal move, and no move
\* is applied to a board that is game over.
C35_GameOverWhenSeenAndNoRestart ==
    /\ [][LeavingFrameOfPlaying =>
              (game'.state = "GameOver"
                   <=> (game.over_seen /\ game.press = "none"))]_vars
    /\ [][(game'.state = "GameOver" /\ game.state # "GameOver")
              => (game.state = "Playing" /\ is_game_over(board))]_vars
    /\ [](game.state = "GameOver" => GameOver(board))
    /\ [][NoMoveOnceOver]_vars

\* a frame of the GameOver state begins on a board on which Black's move
\* took the last White disc
C35_Witness ==
    /\ game.state = "GameOver"
    /\ game.pc = "handle_game_over_input"
    /\ GameOver(board)
    /\ board.white = {}
    /\ board # prevBoard

\* a RestartGameEvent or BackToDifficultyEvent has been handled and the
\* state has not been Playing again since
AfterRestart == game.state \in {"Restarting", "DifficultySelection"}

\* C36: after a restart or a return to difficulty selection, whatever the
\* last game left, when the state next becomes Playing the board is
\* Board::new(), current_player is Black and the AI plays White with the
\* selected difficulty; a handled RestartGameEvent takes the state to
\* Restarting, from Playing or GameOver (or Restarting itself), and
\* Restarting is left for Playing only.
C36_RestartStartsAFreshGame ==
    /\ [][(AfterRestart /\ game'.state = "Playing")
              => /\ board' = BoardNew
                 /\ game'.has_board
                 /\ game'.current_player = Black
                 /\ ai'.color = White
                 /\ ai'.difficulty = game'.selected_difficulty
                 /\ game'.moves = 0]_vars
    /\ [][(game.restart_events /\ game.pc \in {"common", "early_common"})
              => game'.next_state = "Restarting"]_vars
    /\ [][(game'.state = "Restarting" /\ game.state # "Restarting")
              => game.state \in {"Playing", "GameOver"}]_vars
    /\ [][(game.state = "Restarting" /\ game'.state # "Restarting")
              => game'.state = "Playing"]_vars
    /\ [](AfterRestart => (~game.has_board /\ game.current_player = Black))

\* the first frame of a game set up after an earlier one, which was left
\* on another board: the board is the starting one again and Black moves
C36_Witness ==
    /\ game.restarted
    /\ game.state = "Playing"
    /\ game.pc = "handle_input"
    /\ ~game.ticked
    /\ board = BoardNew
    /\ game.current_player = Black
    /\ ai.difficulty = "Expert"
    /\ game.selected_difficulty = "Expert"

----------------------------------------------------------------------------
(* Claims about AiPlayer's search task *)

\* the step is a call of start_thinking by the caller
StartThinkingStep == calls' = calls + 1 /\ ai'.last_call = "start_thinking"

\* the step is a call of check_thinking_result by the caller
CheckThinkingResultStep ==
    calls' = calls + 1 /\ ai'.last_call = "check_thinking_result"

\* the tasks spawned whose result has not been handed over
InFlight == ai.spawned - ai.delivered

\* C37: after any sequence of start_thinking and check_thinking_result
\* calls at most one search task is in flight and is_thinking is true
\* exactly when current_task is Some; start_thinking while a task is in
\* flight spawns no second task and leaves the running one, with its copy
\* of the board, as it is.
C37_OneTaskAtATime ==
    /\ [](ai.is_thinking <=> ai.current_task # <<>>)
    /\ [](InFlight = IF ai.current_task # <<>> THEN 1 ELSE 0)
    /\ [][(StartThinkingStep /\ ai.current_task # <<>>)
              => /\ ai'.current_task = ai.current_task
                 /\ ai'.is_thinking = ai.is_thinking
                 /\ ai'.spawned = ai.spawned]_vars

\* start_thinking was called while a task was in flight whose copy of the
\* board is no longer the caller's board
C37_Witness ==
    /\ ai.refused > 0
    /\ ai.last_call = "start_thinking"
    /\ ai.current_task # <<>>
    /\ ai.current_task[1].board_copy # board
    /\ ai.is_thinking
    /\ ai.spawned = 1

\* C38: check_thinking_result returns None while no task exists or the task
\* is still running, and Some(result) once for each started task, after
\* which the AiPlayer is idle; the result is one get_ai_move can return on
\* the board as it was when start_thinking was called; a start_thinking on
\* an idle AiPlayer is accepted and copies the caller's board.
C38_ResultDeliveredOnce ==
    /\ [][CheckThinkingResultStep =>
              IF ai.current_task # <<>> /\ ai.current_task[1].done
              THEN /\ ai'.last_check = [some |-> TRUE,
                                        result |-> ai.current_task[1].result]
                   /\ ai'.current_task = <<>>
                   /\ ~ai'.is_thinking
                   /\ ai'.delivered = ai.delivered + 1
                   /\ ai.current_task[1].result \in
                          get_ai_move_returns(ai.started_on[1], ai.difficulty,
                                              ai.color)
              ELSE /\ ~ai'.last_check.some
                   /\ ai'.current_task = ai.current_task
                   /\ ai'.delivered = ai.delivered]_vars
    /\ [](ai.delivered <= ai.spawned)
    /\ [](ai.delivered = ai.spawned <=> (ai.current_task = <<>> /\ ~ai.is_thinking))
    /\ [][(StartThinkingStep /\ ai.current_task = <<>> /\ ~ai.is_thinking)
              => /\ ai'.current_task # <<>>
                 /\ ai'.current_task[1].board_copy = board
                 /\ ~ai'.current_task[1].done
                 /\ ai'.spawned = ai.spawned + 1]_vars

\* a result was handed over that is a legal move on the board the task was
\* started on and not on the caller's board as it is now, and a new task
\* has been accepted since
C38_Witness ==
    /\ ai.delivered = 1
    /\ ai.spawned = 2
    /\ ai.last_check.some
    /\ ai.last_check.result # NoMove
    /\ ai.current_task # <<>>
    /\ ai.current_task[1].board_copy = board
    /\ ~LegalMove(board, ai.last_check.result[1], ai.color)

----------------------------------------------------------------------------
(* Claims about the two builds of find_best_move_with_time_limit *)

\* C40: when no time check fires and max_depth >= 1, the iterative
\* deepening of find_best_move_with_time_limit returns the SearchResult the
\* build without a clock returns, find_best_move(board, max_depth, player).
C40_TimedEqualsFixedDepth ==
    (Returned /\ NoCheckFired /\ search.max_depth >= 1) =>
        search.best_result =
            find_best_move_with_time_limit_wasm(board, search.time_limit,
                                                search.max_depth, search.player)

\* a search no time check stopped returned the result of its second depth,
\* whose best move is not the one the first depth found
C40_Witness ==
    /\ Returned
    /\ NoCheckFired
    /\ search.max_depth = 2
    /\ Len(search.results) = 2
    /\ search.best_result = search.results[2]
    /\ search.results[1].best_move # search.results[2].best_move
    /\ search.best_result.best_move # NoMove

----------------------------------------------------------------------------
(* Claims about the end of every game *)

\* the successful calls of make_move since Board::new() in the game followed
\* to its end
SuccessfulMoves == Len(EndgameLine) + game.moves

====
